---- MODULE Spec2Model ----
(***************************************************************************)
(* Boink: lexer -> parser -> SymbolTableBuilder -> Interpreter.            *)
(*                                                                         *)
(* Specification Spec runs boink.main from the point where the parser has  *)
(* returned the ProgramSyntax: the semantic analysis (one step per         *)
(* statement visit), the gate on the error sink, and the interpreter (one  *)
(* step per visit of a node, the host recursion made explicit as a stack   *)
(* of pending visits).  A host exception that nothing catches ends the     *)
(* run in stage "crashed".                                                 *)
(*                                                                         *)
(* Five further specifications take the parts before and beside it, each   *)
(* over the same variables, those it does not use staying as they start:   *)
(* LexSpec is the Lexer reading a text token by token; LineSpec is the     *)
(* Lexer asked for tokens and for the line and column of offsets;          *)
(* ParseSpec is the Parser on the lexer of a text, and one call of one of  *)
(* its methods; LoopSpec is the loops of the Parser, an iteration a step;  *)
(* TypeSpec is the type of one binary operation, by get_type and by the    *)
(* operator rules of builtin_types.py.                                     *)
(***************************************************************************)
EXTENDS Integers, Sequences, FiniteSets, TLC

VARIABLES
    text,           \* Lexer.text, a sequence of characters
    lexer_pos,      \* Lexer.pos, the cursor in text, from 0
    current_token,  \* Parser.current_token
    root,           \* boink.main: root, the ProgramSyntax returned by parse
    errors,         \* ErrorHandler.errors, the shared sink
    scopes,         \* every SymbolTable created so far, by creation order
    current_scope,  \* SymbolTableBuilder.current_scope (index in scopes, 0 = unset)
    an_stack,       \* pending visit_program_syntax / visit_function_syntax loops
    stage,          \* position of boink.main
    exc,            \* the uncaught host exception, "None" while there is none
    call_stack,     \* Interpreter.call_stack._records
    ctl,            \* pending Interpreter.visit_* activations, innermost last
    ret             \* value returned by the visit that completed last

vars == <<text, lexer_pos, current_token, root, errors, scopes, current_scope,
          an_stack, stage, exc, call_stack, ctl, ret>>

lexVars == <<text, lexer_pos, current_token>>

anVars == <<scopes, current_scope, an_stack>>
inVars == <<call_stack, ctl, ret>>

(***************************************************************************)
(* Bounds of the explored programs.                                        *)
(***************************************************************************)
MaxStmts == 3       \* statements directly listed in a straight-line Program
MaxBody == 2        \* statements directly listed in a function of a Program
MaxDepth == 4       \* activation records on the call stack

(***************************************************************************)
(* Syntax nodes (syntax_tree.py).  Every node is a record with a kind;     *)
(* pos is the position of the token the node starts at.                    *)
(***************************************************************************)
NoneNode == [kind |-> "NoneType"]

\* No token: Python's None where a token is expected.
NoToken == [token_type |-> "None"]

\* Host values: None, bool, int and float are a tag with the number n/d
\* (a float is modelled by the exact quotient); a list is a tag with its items.
PyNone == [t |-> "NoneType", n |-> 0, d |-> 1]
PyInt(v) == [t |-> "int", n |-> v, d |-> 1]
PyBool(b) == [t |-> "bool", n |-> IF b THEN 1 ELSE 0, d |-> 1]
PyFloat(n, d) == [t |-> "float", n |-> n, d |-> d]
PyList(items) == [t |-> "list", n |-> 0, d |-> 1, items |-> items]

IntLiteralSyntax(v) == [kind |-> "IntLiteralSyntax", val |-> PyInt(v), pos |-> 0]
FloatLiteralSyntax(n, d) ==
    [kind |-> "FloatLiteralSyntax", val |-> PyFloat(n, d), pos |-> 0]
BoolLiteralSyntax(b) == [kind |-> "BoolLiteralSyntax", val |-> PyBool(b), pos |-> 0]
VariableSyntax(n) ==
    [kind |-> "VariableSyntax", name |-> n, var_type |-> "None", pos |-> 0]
ParenthesizedSyntax(e) == [kind |-> "ParenthesizedSyntax", expr |-> e]
UnaryOperationSyntax(o, e) ==
    [kind |-> "UnaryOperationSyntax", op |-> o, expr |-> e, pos |-> 0]
BinaryOperationSyntax(l, o, r) ==
    [kind |-> "BinaryOperationSyntax", left |-> l, op |-> o, right |-> r]
FunctionCallSyntax(n, as) ==
    [kind |-> "FunctionCallSyntax", name |-> n, args |-> as,
     var_type |-> "None", pos |-> 0]
DeclarationSyntax(t, n, e) ==
    [kind |-> "DeclarationSyntax", var_type |-> t, name |-> n, expr |-> e,
     pos |-> 0]
AssignmentSyntax(n, e) ==
    [kind |-> "AssignmentSyntax", var |-> VariableSyntax(n), expr |-> e]
GiveSyntax(e) == [kind |-> "GiveSyntax", expr |-> e, pos |-> 0]
FunctionSyntax(n, as, g, ss) ==
    [kind |-> "FunctionSyntax", name |-> n, args |-> as, give_type_syntax |-> g,
     statements |-> ss, pos |-> 0]
ProgramSyntax(ss) == [kind |-> "ProgramSyntax", statements |-> ss]

(***************************************************************************)
(* builtin_types.py: the type classes, named by their class names.         *)
(***************************************************************************)
get_type_by_token_type(token_type) ==
    CASE token_type = "DYNAMIC_TYPE" -> "dyn_"
      [] token_type = "INT_TYPE" -> "int_"
      [] token_type = "BOOL_TYPE" -> "bool_"
      [] token_type = "FLOAT_TYPE" -> "float_"

(***************************************************************************)
(* errors.py: an Error is its class, its message and its position.         *)
(* ErrorHandler.error appends it to the sink.                              *)
(***************************************************************************)
Error(cls, msg, pos) == [cls |-> cls, msg |-> msg, pos |-> pos]

(***************************************************************************)
(* The result of a visit or of get_type: exc is the exception that left    *)
(* it, "None" when it returned.                                            *)
(***************************************************************************)
Raised(r) == r.exc # "None"

(***************************************************************************)
(* SyntaxNode.get_pos and SyntaxNode.get_type (syntax_tree.py).            *)
(***************************************************************************)
RECURSIVE get_pos(_)
get_pos(node) ==
    CASE node.kind = "BinaryOperationSyntax" -> get_pos(node.left)
      [] node.kind = "ParenthesizedSyntax" -> get_pos(node.expr) - 1
      [] node.kind = "AssignmentSyntax" -> node.var.pos
      [] OTHER -> node.pos

BinaryOperators == {"PLUS", "MINUS", "STAR", "SLASH", "AMPERSAND_AMPERSAND", "PIPE_PIPE"}

\* BinaryOperationSyntax.get_type asks the left type class for additionType,
\* subtractionType, ...: no class of builtin_types.py has an attribute of
\* these names (they are addition_type, subtraction_type, ...).
BinaryOperationSyntax_get_type(lType, op, rType) ==
    IF op \in BinaryOperators
    THEN [type |-> "None", exc |-> "AttributeError"]
    ELSE [type |-> "None", exc |-> "None"]

RECURSIVE get_type(_)
get_type(node) ==
    CASE node.kind = "IntLiteralSyntax" -> [type |-> "int_", exc |-> "None"]
      [] node.kind = "FloatLiteralSyntax" -> [type |-> "float_", exc |-> "None"]
      [] node.kind = "BoolLiteralSyntax" -> [type |-> "bool_", exc |-> "None"]
      [] node.kind = "VariableSyntax" -> [type |-> node.var_type, exc |-> "None"]
      [] node.kind = "FunctionCallSyntax" -> [type |-> node.var_type, exc |-> "None"]
      [] node.kind = "ParenthesizedSyntax" -> get_type(node.expr)
      [] node.kind = "UnaryOperationSyntax" -> get_type(node.expr)
      [] node.kind = "DeclarationSyntax" ->
            [type |-> get_type_by_token_type(node.var_type), exc |-> "None"]
      [] node.kind = "BinaryOperationSyntax" ->
            LET lType == get_type(node.left)
                rType == get_type(node.right)
            IN  IF Raised(lType) THEN lType
                ELSE IF Raised(rType) THEN rType
                ELSE BinaryOperationSyntax_get_type(lType.type, node.op, rType.type)
      [] node.kind = "NoneType" -> [type |-> "None", exc |-> "AttributeError"]
      [] OTHER -> [type |-> "None", exc |-> "None"]

(***************************************************************************)
(* symbol_table.py: symbols and symbol tables.                             *)
(***************************************************************************)
NoSymbol == [cls |-> "None"]
VarSymbol(var_type, name) ==
    [cls |-> "VarSymbol", var_type |-> var_type, name |-> name]
FunctionSymbol(arg_types, name, give_type) ==
    [cls |-> "FunctionSymbol", var_type |-> "function_", name |-> name,
     arg_types |-> arg_types, give_type |-> give_type]

\* owner is a symbol or NoSymbol; parent is an index in scopes, 0 for none;
\* symbols maps the defined names to their symbols.
SymbolTable(scope_name, owner, parent_scope) ==
    [scope_name |-> scope_name, owner |-> owner, parent |-> parent_scope,
     symbols |-> <<>>]

define(table, symbol) ==
    [table EXCEPT !.symbols =
        [n \in DOMAIN table.symbols \cup {symbol.name} |->
            IF n = symbol.name THEN symbol ELSE table.symbols[n]]]

\* A lookup that also finds the name in the scope enclosing s.
lookup_enclosing_scope(scs, s, name) ==
    IF name \in DOMAIN scs[s].symbols THEN scs[s].symbols[name]
    ELSE IF scs[s].parent # 0 /\ name \in DOMAIN scs[scs[s].parent].symbols
    THEN scs[scs[s].parent].symbols[name]
    ELSE NoSymbol

lookup_only_current_scope(scs, s, name) ==
    IF name \in DOMAIN scs[s].symbols THEN scs[s].symbols[name] ELSE NoSymbol

RECURSIVE lookup(_, _, _)
lookup(scs, s, name) ==
    LET symbol == lookup_only_current_scope(scs, s, name)
    IN  IF symbol.cls = "None" /\ scs[s].parent # 0
        THEN lookup(scs, scs[s].parent, name)
        ELSE symbol

(***************************************************************************)
(* SymbolTableBuilder: the visits of expressions.  A visit of an           *)
(* expression reads the scopes, annotates the node (var_type) and reports  *)
(* errors; its result is the annotated node, the errors in report order    *)
(* and the exception that ended it, if any.                                *)
(***************************************************************************)
Visited(node, errs, e) == [node |-> node, errs |-> errs, exc |-> e]

\* The types compared pairwise by the else branch of
\* visit_function_call_syntax: the first differing pair reports and returns.
RECURSIVE FirstMismatch(_, _, _)
FirstMismatch(arg_types, param_types, i) ==
    IF i > Len(arg_types) \/ i > Len(param_types) THEN 0
    ELSE IF arg_types[i] # param_types[i] THEN i
    ELSE FirstMismatch(arg_types, param_types, i + 1)

\* arg_types = [call_arg_type.get_type() for a in node.args]: the loop
\* variable a is not used; call_arg_type is the last argument visited by the
\* loop before.
call_arg_types(args) ==
    LET t == get_type(args[Len(args)])
    IN  IF Len(args) = 0 THEN [types |-> <<>>, exc |-> "None"]
        ELSE [types |-> [i \in 1..Len(args) |-> t.type], exc |-> t.exc]

RECURSIVE STB_visit_expr(_, _, _)
RECURSIVE STB_visit_args(_, _, _, _)

\* for call_arg_type in node.args: self.visit(call_arg_type)
VisitedArgs(first, rest) ==
    IF Raised(first)
    THEN [nodes |-> <<first.node>>, errs |-> first.errs, exc |-> first.exc]
    ELSE [nodes |-> <<first.node>> \o rest.nodes,
          errs |-> first.errs \o rest.errs, exc |-> rest.exc]

STB_visit_args(args, i, s, scs) ==
    IF i > Len(args) THEN [nodes |-> <<>>, errs |-> <<>>, exc |-> "None"]
    ELSE VisitedArgs(STB_visit_expr(args[i], s, scs),
                     STB_visit_args(args, i + 1, s, scs))

STB_visit_variable_syntax(node, symbol) ==
    IF symbol.cls = "None"
    THEN Visited(node,
                 <<Error("UndefinedSymbolError", "Variable is not defined", node.pos)>>,
                 "None")
    ELSE Visited([node EXCEPT !.var_type = symbol.var_type], <<>>, "None")

\* visit_function_call_syntax from the list of argument types on; node is
\* the call with its arguments visited, errs what their visits reported.
check_arguments(node, symbol, errs, arg_types) ==
    IF Raised(arg_types) THEN Visited(node, errs, arg_types.exc)
    ELSE IF Len(arg_types.types) > Len(symbol.arg_types)
    THEN Visited(node,
             errs \o <<Error("ArgumentMismatchError",
                 "Too many arguments for function call", node.pos)>>, "None")
    ELSE IF Len(arg_types.types) < Len(symbol.arg_types)
    THEN Visited(node,
             errs \o <<Error("ArgumentMismatchError",
                 "Too few arguments for function call", node.pos)>>, "None")
    ELSE IF FirstMismatch(arg_types.types, symbol.arg_types, 1) # 0
    THEN Visited(node,
             errs \o <<Error("IncompatibleTypesError",
                 "not compatible for assignment", node.pos)>>, "None")
    ELSE Visited(node, errs, "None")

\* visit_function_call_syntax: visited is the result of the loop that
\* visits the arguments.
STB_visit_function_call_syntax(node, symbol, visited) ==
    IF symbol.cls = "None"
    THEN Visited(node,
             <<Error("UndefinedSymbolError", "Variable is not defined", node.pos)>>,
             "None")
    ELSE IF "give_type" \notin DOMAIN symbol
    THEN Visited(node, <<>>, "AttributeError")
    ELSE IF Raised(visited)
    THEN Visited([node EXCEPT !.var_type = symbol.give_type],
                 visited.errs, visited.exc)
    ELSE check_arguments([node EXCEPT !.var_type = symbol.give_type,
                                      !.args = visited.nodes],
                         symbol, visited.errs, call_arg_types(visited.nodes))

STB_visit_binary_operation_syntax(node, l, r) ==
    IF Raised(l) THEN Visited([node EXCEPT !.left = l.node], l.errs, l.exc)
    ELSE Visited([node EXCEPT !.left = l.node, !.right = r.node],
                 l.errs \o r.errs, r.exc)

STB_visit_parenthesized_syntax(node, e) ==
    Visited([node EXCEPT !.expr = e.node], e.errs, e.exc)

\* ASTVisitor.visit for the SymbolTableBuilder: the method is found by the
\* name of the node's class; ASTVisitor gives the literals a method that
\* does nothing, and there is no method for UnaryOperationSyntax or None.
STB_visit_expr(node, s, scs) ==
    CASE node.kind = "VariableSyntax" ->
            STB_visit_variable_syntax(node, lookup(scs, s, node.name))
      [] node.kind = "FunctionCallSyntax" ->
            STB_visit_function_call_syntax(node, lookup(scs, s, node.name),
                                           STB_visit_args(node.args, 1, s, scs))
      [] node.kind = "BinaryOperationSyntax" ->
            STB_visit_binary_operation_syntax(node,
                STB_visit_expr(node.left, s, scs), STB_visit_expr(node.right, s, scs))
      [] node.kind = "ParenthesizedSyntax" ->
            STB_visit_parenthesized_syntax(node, STB_visit_expr(node.expr, s, scs))
      [] node.kind \in {"IntLiteralSyntax", "FloatLiteralSyntax", "BoolLiteralSyntax"} ->
            Visited(node, <<>>, "None")
      [] OTHER -> Visited(node, <<>>, "AttributeError")

(***************************************************************************)
(* SymbolTableBuilder: the visits of statements other than functions.      *)
(* Their result is the scopes after the visit, the errors reported and     *)
(* the exception that ended the visit, if any.  In each, e is the result   *)
(* of self.visit(node.expr).                                               *)
(***************************************************************************)
Analyzed(scs, errs, e) == [scopes |-> scs, errs |-> errs, exc |-> e]

\* The comparison of the type of the visited expression with the type
\* expected, which ends the visits of declarations, assignments and gives.
check_type(scs, errs, t, expected, msg, pos) ==
    IF Raised(t) THEN Analyzed(scs, errs, t.exc)
    ELSE IF t.type # expected
    THEN Analyzed(scs, errs \o <<Error("IncompatibleTypesError", msg, pos)>>, "None")
    ELSE Analyzed(scs, errs, "None")

\* defined is the scopes with the new symbol defined in the current scope.
declaration_checked(node, var_symbol, scs, defined, e) ==
    IF var_symbol.cls # "None"
    THEN Analyzed(scs, <<Error("MultipleDefinitionError",
                               "Variable is already defined", node.pos)>>, "None")
    ELSE IF node.expr.kind = "NoneType" THEN Analyzed(defined, <<>>, "None")
    ELSE IF Raised(e) THEN Analyzed(defined, e.errs, e.exc)
    ELSE check_type(defined, e.errs, get_type(e.node),
                    get_type_by_token_type(node.var_type),
                    "not compatible for assignment", node.pos)

defined_in(scs, s, node) ==
    [scs EXCEPT ![s] = define(scs[s],
        VarSymbol(get_type_by_token_type(node.var_type), node.name))]

STB_visit_declaration_syntax(node, s, scs) ==
    declaration_checked(node, lookup_only_current_scope(scs, s, node.name), scs,
                        defined_in(scs, s, node),
                        STB_visit_expr(node.expr, s, defined_in(scs, s, node)))

assignment_checked(node, symbol, scs, e) ==
    IF Raised(e) THEN Analyzed(scs, e.errs, e.exc)
    ELSE IF symbol.cls = "None"
    THEN Analyzed(scs,
             e.errs \o <<Error("UndefinedSymbolError",
                 "Variable is not defined", node.var.pos)>>, "None")
    ELSE check_type(scs, e.errs, get_type(e.node), symbol.var_type,
                    "not compatible for assignment", get_pos(node))

STB_visit_assignment_syntax(node, s, scs) ==
    assignment_checked(node, lookup(scs, s, node.var.name), scs,
                       STB_visit_expr(node.expr, s, scs))

give_checked(node, current_function_symbol, scs, e) ==
    IF Raised(e) THEN Analyzed(scs, e.errs, e.exc)
    ELSE IF current_function_symbol.cls = "None"
    THEN Analyzed(scs,
             e.errs \o <<Error("GiveNotAllowedError",
                 "give is not inside of a function", node.pos)>>, "None")
    ELSE IF current_function_symbol.give_type = "None"
    THEN Analyzed(scs,
             e.errs \o <<Error("IncompatibleTypesError",
                 "function has no return type", node.pos)>>, "None")
    ELSE check_type(scs, e.errs, get_type(e.node), current_function_symbol.give_type,
                    "not compatible for giving", node.pos)

STB_visit_give_syntax(node, s, scs) ==
    give_checked(node, scs[s].owner, scs, STB_visit_expr(node.expr, s, scs))

\* for a in node.args: self.visit(a), the parameters being declarations
RECURSIVE STB_visit_parameters(_, _, _, _)
RECURSIVE parameters_after(_, _, _, _)
parameters_after(first, args, i, s) ==
    IF Raised(first) THEN first
    ELSE [STB_visit_parameters(args, i + 1, s, first.scopes)
             EXCEPT !.errs = first.errs \o @]

STB_visit_parameters(args, i, s, scs) ==
    IF i > Len(args) THEN Analyzed(scs, <<>>, "None")
    ELSE parameters_after(STB_visit_declaration_syntax(args[i], s, scs), args, i, s)

\* The symbol visit_function_syntax makes of the node.
function_symbol(node) ==
    FunctionSymbol([i \in 1..Len(node.args) |-> get_type(node.args[i]).type],
                   node.name,
                   IF node.give_type_syntax # "None"
                   THEN get_type_by_token_type(node.give_type_syntax)
                   ELSE "None")

\* The scopes once the symbol is defined in the current scope s and the
\* scope of the function is created, at position Len(scs) + 1.
function_scope(node, s, scs) ==
    Append([scs EXCEPT ![s] = define(scs[s], function_symbol(node))],
           SymbolTable(node.name, function_symbol(node), s))

function_entered(scope, params) ==
    [entered |-> TRUE, scopes |-> params.scopes, scope |-> scope,
     exc |-> params.exc, errs |-> params.errs]

\* visit_function_syntax up to its loop over node.statements: entered is
\* FALSE when the function is already defined and the visit has returned.
STB_visit_function_syntax(node, s, scs) ==
    IF lookup(scs, s, node.name).cls # "None"
    THEN [entered |-> FALSE, scopes |-> scs, scope |-> s, exc |-> "None",
          errs |-> <<Error("MultipleDefinitionError",
                           "Function is already defined", node.pos)>>]
    ELSE function_entered(Len(scs) + 1,
             STB_visit_parameters(node.args, 1, Len(scs) + 1,
                                  function_scope(node, s, scs)))

(***************************************************************************)
(* The analysis as steps.  A frame of an_stack is a running loop over the  *)
(* statements of a node (the Program or a function): i is the statement    *)
(* the loop visits next, scope the scope the loop restores after each      *)
(* visit, has_give the flag of visit_function_syntax.                      *)
(***************************************************************************)
AnFrame(node, scope) == [node |-> node, i |-> 1, scope |-> scope, has_give |-> FALSE]

AnTop == an_stack[Len(an_stack)]
AnVisiting ==
    /\ stage = "analyze"
    /\ an_stack # <<>>
    /\ AnTop.i <= Len(AnTop.node.statements)
AnStatement == AnTop.node.statements[AnTop.i]

\* The visit of the current statement has returned to its loop, which
\* restores the scope and moves on; or an exception has left everything.
AnReturn(r, gave) ==
    /\ errors' = errors \o r.errs
    /\ scopes' = r.scopes
    /\ UNCHANGED <<lexVars, root, inVars>>
    /\ IF Raised(r)
       THEN /\ stage' = "crashed"
            /\ exc' = r.exc
            /\ UNCHANGED <<current_scope, an_stack>>
       ELSE /\ current_scope' = AnTop.scope
            /\ an_stack' = [an_stack EXCEPT ![Len(an_stack)] =
                               [@ EXCEPT !.i = @ + 1, !.has_give = @ \/ gave]]
            /\ UNCHANGED <<stage, exc>>

\* visit_function_syntax has reached its loop: the loop starts in the scope
\* of the function.  Or it has returned or raised before.
AnEnter(f) ==
    IF f.entered /\ ~Raised(f)
    THEN /\ errors' = errors \o f.errs
         /\ scopes' = f.scopes
         /\ current_scope' = f.scope
         /\ an_stack' = Append(an_stack, AnFrame(AnStatement, f.scope))
         /\ UNCHANGED <<lexVars, root, stage, exc, inVars>>
    ELSE AnReturn(Analyzed(f.scopes, f.errs, f.exc), FALSE)

\* SymbolTableBuilder.visit_program_syntax: the global scope is created.
VisitProgram ==
    /\ stage = "analyze"
    /\ an_stack = <<>>
    /\ scopes' = <<SymbolTable("global", NoSymbol, 0)>>
    /\ current_scope' = 1
    /\ an_stack' = <<AnFrame(root, 1)>>
    /\ UNCHANGED <<lexVars, root, errors, stage, exc, inVars>>

VisitDeclaration ==
    /\ AnVisiting
    /\ AnStatement.kind = "DeclarationSyntax"
    /\ AnReturn(STB_visit_declaration_syntax(AnStatement, current_scope, scopes), FALSE)

VisitAssignment ==
    /\ AnVisiting
    /\ AnStatement.kind = "AssignmentSyntax"
    /\ AnReturn(STB_visit_assignment_syntax(AnStatement, current_scope, scopes), FALSE)

\* A call visited as a statement leaves the scopes as they are.
call_statement(scs, v) == Analyzed(scs, v.errs, v.exc)

VisitFunctionCall ==
    /\ AnVisiting
    /\ AnStatement.kind = "FunctionCallSyntax"
    /\ AnReturn(call_statement(scopes,
                    STB_visit_expr(AnStatement, current_scope, scopes)), FALSE)

\* has_give is set by the loop of visit_function_syntax only; the loop of
\* visit_program_syntax has no such flag.
VisitGive ==
    /\ AnVisiting
    /\ AnStatement.kind = "GiveSyntax"
    /\ AnReturn(STB_visit_give_syntax(AnStatement, current_scope, scopes),
                AnTop.node.kind = "FunctionSyntax")

\* visit_function_syntax until its loop starts (or until it returns or
\* raises before that).
VisitFunction ==
    /\ AnVisiting
    /\ AnStatement.kind = "FunctionSyntax"
    /\ AnEnter(STB_visit_function_syntax(AnStatement, current_scope, scopes))

\* The end of a function after which the enclosing loop restores nothing.
VisitFunctionEndInScope ==
    /\ stage = "analyze"
    /\ Len(an_stack) > 1
    /\ AnTop.i > Len(AnTop.node.statements)
    /\ UNCHANGED <<lexVars, root, errors, scopes, inVars, current_scope>>
    /\ IF ~AnTop.has_give /\ AnTop.node.give_type_syntax # "None"
       THEN /\ stage' = "crashed"
            /\ exc' = "NameError"
            /\ UNCHANGED an_stack
       ELSE /\ an_stack' = [SubSeq(an_stack, 1, Len(an_stack) - 1)
                               EXCEPT ![Len(an_stack) - 1] = [@ EXCEPT !.i = @ + 1]]
            /\ UNCHANGED <<stage, exc>>

\* The loop of visit_function_syntax is over: the give check, which names
\* NoGiveError (errors.py defines NotGivenError), then the return to the
\* loop that visited the function.
VisitFunctionEnd ==
    /\ stage = "analyze"
    /\ Len(an_stack) > 1
    /\ AnTop.i > Len(AnTop.node.statements)
    /\ UNCHANGED <<lexVars, root, errors, scopes, inVars>>
    /\ IF ~AnTop.has_give /\ AnTop.node.give_type_syntax # "None"
       THEN /\ stage' = "crashed"
            /\ exc' = "NameError"
            /\ UNCHANGED <<current_scope, an_stack>>
       ELSE /\ current_scope' = an_stack[Len(an_stack) - 1].scope
            /\ an_stack' = [SubSeq(an_stack, 1, Len(an_stack) - 1)
                               EXCEPT ![Len(an_stack) - 1] = [@ EXCEPT !.i = @ + 1]]
            /\ UNCHANGED <<stage, exc>>

\* The loop of visit_program_syntax is over: boink.main goes on to the gate.
VisitProgramEnd ==
    /\ stage = "analyze"
    /\ Len(an_stack) = 1
    /\ AnTop.i > Len(AnTop.node.statements)
    /\ an_stack' = <<>>
    /\ stage' = "gate"
    /\ UNCHANGED <<lexVars, root, errors, scopes, current_scope, exc, inVars>>

(***************************************************************************)
(* The host operators the interpreter applies to the operand values        *)
(* (Interpreter.visit_binary_operation_syntax).                            *)
(***************************************************************************)
RECURSIVE Gcd(_, _)
Gcd(a, b) == IF b = 0 THEN a ELSE Gcd(b, a % b)
Abs(a) == IF a < 0 THEN -a ELSE a

Number(t, n, d) ==
    LET g == Gcd(Abs(n), Abs(d))
    IN  IF t = "float" THEN PyFloat(n \div g, d \div g) ELSE PyInt(n)

IsNumber(v) == v.t \in {"int", "bool", "float"}
NumberType(l, r) == IF l.t = "float" \/ r.t = "float" THEN "float" ELSE "int"
Truthy(v) == IF v.t = "list" THEN v.items # <<>> ELSE v.n # 0

RECURSIVE Repeat(_, _)
Repeat(items, k) == IF k <= 0 THEN <<>> ELSE items \o Repeat(items, k - 1)

Computed(v) == [val |-> v, exc |-> "None"]
Failed(e) == [val |-> PyNone, exc |-> e]

host_operator(op, l, r) ==
    CASE op = "PLUS" ->
            IF IsNumber(l) /\ IsNumber(r)
            THEN Computed(Number(NumberType(l, r), l.n * r.d + r.n * l.d, l.d * r.d))
            ELSE IF l.t = "list" /\ r.t = "list"
            THEN Computed(PyList(l.items \o r.items))
            ELSE Failed("TypeError")
      [] op = "MINUS" ->
            IF IsNumber(l) /\ IsNumber(r)
            THEN Computed(Number(NumberType(l, r), l.n * r.d - r.n * l.d, l.d * r.d))
            ELSE Failed("TypeError")
      [] op = "STAR" ->
            IF IsNumber(l) /\ IsNumber(r)
            THEN Computed(Number(NumberType(l, r), l.n * r.n, l.d * r.d))
            ELSE IF l.t = "list" /\ r.t \in {"int", "bool"}
            THEN Computed(PyList(Repeat(l.items, r.n)))
            ELSE IF r.t = "list" /\ l.t \in {"int", "bool"}
            THEN Computed(PyList(Repeat(r.items, l.n)))
            ELSE Failed("TypeError")
      [] op = "SLASH" ->
            IF IsNumber(l) /\ IsNumber(r)
            THEN IF r.n = 0 THEN Failed("ZeroDivisionError")
                 ELSE Computed(Number("float",
                                      (IF r.n < 0 THEN -1 ELSE 1) * l.n * r.d,
                                      l.d * Abs(r.n)))
            ELSE Failed("TypeError")
      [] op = "AMPERSAND_AMPERSAND" -> Computed(IF Truthy(l) THEN r ELSE l)
      [] op = "PIPE_PIPE" -> Computed(IF Truthy(l) THEN l ELSE r)
      [] OTHER -> Computed(PyNone)

(***************************************************************************)
(* interpreter.py: activation records.  parent_record is the position of   *)
(* the parent in the call stack, 0 for None; members maps the names of the *)
(* record to the objects bound to them.  An object is an instance of a     *)
(* class of builtin_types.py.                                              *)
(***************************************************************************)
\* A record that takes the nesting level of the program's record.
ActivationRecord_levelled(name, nesting_level, parent_record) ==
    [name |-> name, nesting_level |-> 1,
     parent_record |-> parent_record, members |-> <<>>]

ActivationRecord(name, nesting_level, parent_record) ==
    [name |-> name, nesting_level |-> nesting_level,
     parent_record |-> parent_record, members |-> <<>>]

type_(cls, name, val) == [cls |-> cls, name |-> name, val |-> val]
function_(name, val, args) ==
    [cls |-> "function_", name |-> name, val |-> PyList(val), args |-> args]

\* ActivationRecord.__setitem__
setitem(ar, key, value) ==
    [ar EXCEPT !.members =
        [k \in DOMAIN ar.members \cup {key} |->
            IF k = key THEN value ELSE ar.members[k]]]

\* __getitem__ without the deepcopy: the caller gets the object the parent
\* returned.
share_with_parent(found, r, key) ==
    [stack |-> found.stack, at |-> found.at, exc |-> "None"]

\* ActivationRecord.__getitem__, the branch that found the name in the
\* parent: the object is deep-copied into the record r, and the copy is
\* what the caller gets.  found.stack is the stack after the lookup in the
\* parent, found.at the record that holds the object the parent returned.
copy_from_parent(found, r, key) ==
    [stack |-> [found.stack EXCEPT ![r] =
                    setitem(@, key, found.stack[found.at].members[key])],
     at |-> r, exc |-> "None"]

\* ActivationRecord.__getitem__ on the record at position r of the stack:
\* the stack after the access, and the record whose member is the object
\* returned.
RECURSIVE getitem(_, _, _)
getitem(stack, r, key) ==
    IF key \in DOMAIN stack[r].members
    THEN [stack |-> stack, at |-> r, exc |-> "None"]
    ELSE IF stack[r].parent_record # 0
    THEN LET var_in_parent == getitem(stack, stack[r].parent_record, key)
         IN  IF Raised(var_in_parent) THEN var_in_parent
             ELSE copy_from_parent(var_in_parent, r, key)
    ELSE [stack |-> stack, at |-> 0, exc |-> "KeyError"]

(***************************************************************************)
(* The interpreter as steps.  ctl holds the activations of visit methods   *)
(* that have not returned, the innermost last: a frame with h = "visit" is *)
(* a call of ASTVisitor.visit that has not dispatched yet; every other     *)
(* frame is a method waiting for the visit it called, whose value is in    *)
(* ret when the frame is the innermost again.  The analysis has visited    *)
(* every node of a program that reaches the interpreter, so the nodes it   *)
(* has no method for (UnaryOperationSyntax, None) are not among them.      *)
(***************************************************************************)
Visit(node) == [h |-> "visit", node |-> node]

Interpreting == stage = "interpret" /\ ctl # <<>>
Top == ctl[Len(ctl)]
Dispatch(kinds) == Interpreting /\ Top.h = "visit" /\ Top.node.kind \in kinds
Resume(h) == Interpreting /\ Top.h = h
Popped == SubSeq(ctl, 1, Len(ctl) - 1)
Replaced(frame) == [ctl EXCEPT ![Len(ctl)] = frame]
peek == Len(call_stack)

\* The innermost method returns val to the method that called it.
Return(val) ==
    /\ ctl' = Popped
    /\ ret' = val
    /\ UNCHANGED <<stage, exc>>

\* The innermost method raises e: no method catches, boink.main ends.
Raise(e) ==
    /\ stage' = "crashed"
    /\ exc' = e
    /\ UNCHANGED <<ctl, ret>>

\* boink.main without the test of the sink.
gate_unguarded(errs) == "interpret"

\* boink.main after the analysis: the interpreter is constructed, which
\* visits the root, or the errors are logged.
gate(errs) == IF errs = <<>> THEN "interpret" ELSE "reported"

Main ==
    /\ stage = "gate"
    /\ stage' = gate(errors)
    /\ ctl' = IF stage' = "interpret" THEN <<Visit(root)>> ELSE ctl
    /\ UNCHANGED <<lexVars, root, errors, anVars, exc, call_stack, ret>>

Interpreter_visit_program_syntax ==
    /\ Dispatch({"ProgramSyntax"})
    /\ call_stack' = Append(call_stack, ActivationRecord("program", 1, 0))
    /\ ctl' = Replaced([h |-> "program", node |-> Top.node, i |-> 1])
    /\ UNCHANGED <<lexVars, root, errors, anVars, stage, exc, ret>>

\* for s in node.statements: self.visit(s)
ProgramStatement ==
    /\ Resume("program")
    /\ Top.i <= Len(Top.node.statements)
    /\ ctl' = Append(Replaced([Top EXCEPT !.i = @ + 1]),
                     Visit(Top.node.statements[Top.i]))
    /\ UNCHANGED <<lexVars, root, errors, anVars, stage, exc, call_stack, ret>>

\* self.call_stack.pop() and the end of Interpreter.__init__
ProgramEnd ==
    /\ Resume("program")
    /\ Top.i > Len(Top.node.statements)
    /\ call_stack' = SubSeq(call_stack, 1, Len(call_stack) - 1)
    /\ ctl' = Popped
    /\ ret' = PyNone
    /\ stage' = "executed"
    /\ UNCHANGED <<lexVars, root, errors, anVars, exc>>

\* ar[node.name] = var_type(node.name, val)
declare(node, val) ==
    [call_stack EXCEPT ![peek] =
        setitem(@, node.name,
                type_(get_type_by_token_type(node.var_type), node.name, val))]

Interpreter_visit_declaration_syntax ==
    /\ Dispatch({"DeclarationSyntax"})
    /\ UNCHANGED <<lexVars, root, errors, anVars>>
    /\ IF Top.node.expr.kind = "NoneType"
       THEN /\ call_stack' = declare(Top.node, PyNone)
            /\ Return(PyNone)
       ELSE /\ ctl' = Append(Replaced([h |-> "declaration", node |-> Top.node]),
                             Visit(Top.node.expr))
            /\ UNCHANGED <<stage, exc, call_stack, ret>>

DeclarationStore ==
    /\ Resume("declaration")
    /\ call_stack' = declare(Top.node, ret)
    /\ Return(PyNone)
    /\ UNCHANGED <<lexVars, root, errors, anVars>>

Interpreter_visit_assignment_syntax ==
    /\ Dispatch({"AssignmentSyntax"})
    /\ ctl' = Append(Replaced([h |-> "assignment", node |-> Top.node]),
                     Visit(Top.node.expr))
    /\ UNCHANGED <<lexVars, root, errors, anVars, stage, exc, call_stack, ret>>

\* var = ar[var_name]; var.val = var_value
AssignmentStore ==
    /\ Resume("assignment")
    /\ UNCHANGED <<lexVars, root, errors, anVars>>
    /\ LET var == getitem(call_stack, peek, Top.node.var.name)
       IN  IF Raised(var)
           THEN Raise(var.exc) /\ UNCHANGED call_stack
           ELSE /\ call_stack' = [var.stack EXCEPT
                       ![var.at].members[Top.node.var.name].val = ret]
                /\ Return(PyNone)

Interpreter_visit_variable_syntax ==
    /\ Dispatch({"VariableSyntax"})
    /\ UNCHANGED <<lexVars, root, errors, anVars>>
    /\ LET var == getitem(call_stack, peek, Top.node.name)
       IN  IF Raised(var)
           THEN Raise(var.exc) /\ UNCHANGED call_stack
           ELSE /\ call_stack' = var.stack
                /\ Return(var.stack[var.at].members[Top.node.name].val)

\* visit_int_literal_syntax, visit_float_literal_syntax, visit_bool_literal_syntax
Interpreter_visit_literal_syntax ==
    /\ Dispatch({"IntLiteralSyntax", "FloatLiteralSyntax", "BoolLiteralSyntax"})
    /\ Return(Top.node.val)
    /\ UNCHANGED <<lexVars, root, errors, anVars, call_stack>>

\* The Interpreter does not define visit_parenthesized_syntax: the method
\* of ASTVisitor runs, which does nothing.
Interpreter_visit_parenthesized_syntax ==
    /\ Dispatch({"ParenthesizedSyntax"})
    /\ Return(PyNone)
    /\ UNCHANGED <<lexVars, root, errors, anVars, call_stack>>

Interpreter_visit_binary_operation_syntax ==
    /\ Dispatch({"BinaryOperationSyntax"})
    /\ ctl' = Append(Replaced([h |-> "binary", node |-> Top.node, at |-> "left",
                               left |-> PyNone]),
                     Visit(Top.node.left))
    /\ UNCHANGED <<lexVars, root, errors, anVars, stage, exc, call_stack, ret>>

BinaryRight ==
    /\ Resume("binary")
    /\ Top.at = "left"
    /\ ctl' = Append(Replaced([Top EXCEPT !.at = "right", !.left = ret]),
                     Visit(Top.node.right))
    /\ UNCHANGED <<lexVars, root, errors, anVars, stage, exc, call_stack, ret>>

BinaryApply ==
    /\ Resume("binary")
    /\ Top.at = "right"
    /\ UNCHANGED <<lexVars, root, errors, anVars, call_stack>>
    /\ LET v == host_operator(Top.node.op, Top.left, ret)
       IN  IF Raised(v) THEN Raise(v.exc) ELSE Return(v.val)

\* return self.visit(node.expr)
Interpreter_visit_give_syntax ==
    /\ Dispatch({"GiveSyntax"})
    /\ ctl' = Replaced(Visit(Top.node.expr))
    /\ UNCHANGED <<lexVars, root, errors, anVars, stage, exc, call_stack, ret>>

Interpreter_visit_function_syntax ==
    /\ Dispatch({"FunctionSyntax"})
    /\ call_stack' = [call_stack EXCEPT ![peek] =
           setitem(@, Top.node.name,
                   function_(Top.node.name, Top.node.statements, Top.node.args))]
    /\ Return(PyNone)
    /\ UNCHANGED <<lexVars, root, errors, anVars>>

(***************************************************************************)
(* Interpreter.visit_function_call_syntax.  Its frame holds the record ar  *)
(* under construction, the function object func_symbol, the number j of    *)
(* the pair of zip(arg_decls, passed_args) at hand, the statement i of the *)
(* body at hand and the place the method is at.                            *)
(***************************************************************************)
Min(a, b) == IF a < b THEN a ELSE b

\* Up to the loop over the arguments: the new record is created with the
\* record on top of the stack for parent, and the function is looked up.
Interpreter_visit_function_call_syntax ==
    /\ Dispatch({"FunctionCallSyntax"})
    /\ UNCHANGED <<lexVars, root, errors, anVars, ret>>
    /\ LET parent_record == call_stack[peek]
           ar == ActivationRecord(Top.node.name,
                                  parent_record.nesting_level + 1, peek)
           found == getitem(call_stack, peek, Top.node.name)
           func_symbol == found.stack[found.at].members[Top.node.name]
       IN  IF Raised(found)
           THEN Raise(found.exc) /\ UNCHANGED call_stack
           ELSE IF "args" \notin DOMAIN func_symbol
           THEN /\ call_stack' = found.stack
                /\ stage' = "crashed"
                /\ exc' = "AttributeError"
                /\ UNCHANGED ctl
           ELSE /\ call_stack' = found.stack
                /\ ctl' = Replaced([h |-> "call", node |-> Top.node, ar |-> ar,
                                    func_symbol |-> func_symbol, j |-> 1,
                                    i |-> 1, at |-> "zip"])
                /\ UNCHANGED <<stage, exc>>

Pairs(frame) == Min(Len(frame.func_symbol.args), Len(frame.node.args))

\* self.visit(passed_arg) for the next pair of the zip
CallArgument ==
    /\ Resume("call")
    /\ Top.at = "zip"
    /\ Top.j <= Pairs(Top)
    /\ ctl' = Append(Replaced([Top EXCEPT !.at = "bind"]),
                     Visit(Top.node.args[Top.j]))
    /\ UNCHANGED <<lexVars, root, errors, anVars, stage, exc, call_stack, ret>>

\* ar[arg_decl.name] = var_type(arg_decl.name, <the value visited>)
CallBind ==
    /\ Resume("call")
    /\ Top.at = "bind"
    /\ LET arg_decl == Top.func_symbol.args[Top.j]
           var_type == get_type_by_token_type(arg_decl.var_type)
       IN  ctl' = Replaced([Top EXCEPT
                    !.at = "zip", !.j = @ + 1,
                    !.ar = setitem(@, arg_decl.name,
                                   type_(var_type, arg_decl.name, ret))])
    /\ UNCHANGED <<lexVars, root, errors, anVars, stage, exc, call_stack, ret>>

\* self.call_stack.push(ar)
CallPush ==
    /\ Resume("call")
    /\ Top.at = "zip"
    /\ Top.j > Pairs(Top)
    /\ Len(call_stack) < MaxDepth
    /\ call_stack' = Append(call_stack, Top.ar)
    /\ ctl' = Replaced([Top EXCEPT !.at = "body"])
    /\ UNCHANGED <<lexVars, root, errors, anVars, stage, exc, ret>>

\* for s in func_symbol.val: a GiveSyntax is visited for the value to give
\* and ends the loop, any other statement is visited and the loop goes on.
CallStatement ==
    /\ Resume("call")
    /\ Top.at = "body"
    /\ Top.i <= Len(Top.func_symbol.val.items)
    /\ LET s == Top.func_symbol.val.items[Top.i]
       IN  ctl' = Append(Replaced([Top EXCEPT
                            !.i = @ + 1,
                            !.at = IF s.kind = "GiveSyntax" THEN "give" ELSE "body"]),
                         Visit(s))
    /\ UNCHANGED <<lexVars, root, errors, anVars, stage, exc, call_stack, ret>>

\* The end of a call that leaves its record on the stack.
CallReturnWithoutPop ==
    /\ Resume("call")
    /\ \/ Top.at = "give"
       \/ Top.at = "body" /\ Top.i > Len(Top.func_symbol.val.items)
    /\ Return(IF Top.at = "give" THEN ret ELSE PyNone)
    /\ UNCHANGED <<lexVars, root, errors, anVars, call_stack>>

\* self.call_stack.pop(); return give_value
CallReturn ==
    /\ Resume("call")
    /\ \/ Top.at = "give"
       \/ Top.at = "body" /\ Top.i > Len(Top.func_symbol.val.items)
    /\ call_stack' = SubSeq(call_stack, 1, Len(call_stack) - 1)
    /\ Return(IF Top.at = "give" THEN ret ELSE PyNone)
    /\ UNCHANGED <<lexVars, root, errors, anVars>>

(***************************************************************************)
(* Positions.  The parser gives a node the position of a token of its      *)
(* source; Locate gives the nodes of a tree the positions they have when   *)
(* the tokens of the source are numbered from p on, one position a token.  *)
(***************************************************************************)
Located(node, next) == [node |-> node, next |-> next]

RECURSIVE Locate(_, _)
RECURSIVE LocateAll(_, _, _, _)

\* The nodes of a list, sep positions between the end of one and the start
\* of the next (a comma or a newline).
LocateAll(nodes, i, p, sep) ==
    IF i > Len(nodes) THEN [nodes |-> <<>>, next |-> p]
    ELSE LET first == Locate(nodes[i], p)
             rest == LocateAll(nodes, i + 1,
                               first.next + (IF i < Len(nodes) THEN sep ELSE 0), sep)
         IN  [nodes |-> <<first.node>> \o rest.nodes, next |-> rest.next]

Locate(node, p) ==
    CASE node.kind \in {"IntLiteralSyntax", "FloatLiteralSyntax",
                        "BoolLiteralSyntax", "VariableSyntax"} ->
            Located([node EXCEPT !.pos = p], p + 1)
      [] node.kind = "ParenthesizedSyntax" ->
            LET e == Locate(node.expr, p + 1)
            IN  Located([node EXCEPT !.expr = e.node], e.next + 1)
      [] node.kind = "UnaryOperationSyntax" ->
            LET e == Locate(node.expr, p + 1)
            IN  Located([node EXCEPT !.pos = p, !.expr = e.node], e.next)
      [] node.kind = "BinaryOperationSyntax" ->
            LET l == Locate(node.left, p)
                r == Locate(node.right, l.next + 1)
            IN  Located([node EXCEPT !.left = l.node, !.right = r.node], r.next)
      [] node.kind = "FunctionCallSyntax" ->
            LET as == LocateAll(node.args, 1, p + 2, 1)
            IN  Located([node EXCEPT !.pos = p, !.args = as.nodes], as.next + 1)
      [] node.kind = "DeclarationSyntax" ->
            LET e == Locate(node.expr, p + 3)
            IN  IF node.expr.kind = "NoneType"
                THEN Located([node EXCEPT !.pos = p], p + 2)
                ELSE Located([node EXCEPT !.pos = p, !.expr = e.node], e.next)
      [] node.kind = "AssignmentSyntax" ->
            LET e == Locate(node.expr, p + 2)
            IN  Located([node EXCEPT !.var.pos = p, !.expr = e.node], e.next)
      [] node.kind = "GiveSyntax" ->
            LET e == Locate(node.expr, p + 1)
            IN  Located([node EXCEPT !.pos = p, !.expr = e.node], e.next)
      [] node.kind = "FunctionSyntax" ->
            LET as == LocateAll(node.args, 1, p + 3, 1)
                body == as.next + 1 + (IF node.give_type_syntax = "None" THEN 0 ELSE 2) + 1
                ss == LocateAll(node.statements, 1, body, 1)
            IN  Located([node EXCEPT !.pos = p + 1, !.args = as.nodes,
                                     !.statements = ss.nodes],
                        ss.next + (IF node.statements = <<>> THEN 0 ELSE 1) + 1)
      [] node.kind = "ProgramSyntax" ->
            LET ss == LocateAll(node.statements, 1, p, 1)
            IN  Located([node EXCEPT !.statements = ss.nodes], ss.next + 1)
      [] OTHER -> Located(node, p)

(***************************************************************************)
(* The programs explored: the trees the parser returns for sources of      *)
(* three shapes.                                                           *)
(***************************************************************************)
RECURSIVE SeqsUpTo(_, _)
SeqsUpTo(S, n) ==
    IF n = 0 THEN {<<>>}
    ELSE LET shorter == SeqsUpTo(S, n - 1)
         IN  shorter \cup {Append(q, x) : q \in {r \in shorter : Len(r) = n - 1}, x \in S}

Lit(v) == IntLiteralSyntax(v)
True == BoolLiteralSyntax(TRUE)
Var(n) == VariableSyntax(n)
Plus(l, r) == BinaryOperationSyntax(l, "PLUS", r)
Call(n, as) == FunctionCallSyntax(n, as)
Declare(t, n) == DeclarationSyntax(t, n, NoneNode)
Fn(n, as, g, ss) == FunctionSyntax(n, as, g, ss)

\* Statements of straight-line programs.
SimpleStatements ==
    { DeclarationSyntax("INT_TYPE", "a", Lit(1)),
      Declare("INT_TYPE", "a"),
      DeclarationSyntax("INT_TYPE", "a", Var("a")),
      DeclarationSyntax("INT_TYPE", "c", Plus(Var("a"), Lit(1))),
      DeclarationSyntax("INT_TYPE", "c", ParenthesizedSyntax(Lit(2))),
      DeclarationSyntax("BOOL_TYPE", "c", Var("a")),
      AssignmentSyntax("a", True),
      AssignmentSyntax("a", Lit(2)),
      AssignmentSyntax("c", UnaryOperationSyntax("MINUS", Lit(1))),
      AssignmentSyntax("a", Plus(Lit(1), Lit(1))),
      Call("a", <<>>),
      GiveSyntax(Lit(1)) }

\* Statements of the body of the function f.
BodyStatements ==
    { AssignmentSyntax("a", Lit(2)),
      DeclarationSyntax("INT_TYPE", "a", Lit(3)),
      DeclarationSyntax("INT_TYPE", "c", Var("a")),
      GiveSyntax(Var("a")),
      GiveSyntax(True),
      Call("f", <<>>) }

Parameters ==
    { <<>>,
      <<Declare("INT_TYPE", "a")>>,
      <<Declare("INT_TYPE", "a"), Declare("INT_TYPE", "b")>>,
      <<Declare("BOOL_TYPE", "a"), Declare("BOOL_TYPE", "b")>> }

\* Statements that use f after its definition.
Uses ==
    { Call("f", <<>>),
      Call("f", <<Lit(1)>>),
      Call("f", <<Lit(1), True>>),
      Call("f", <<Lit(1), Lit(2), Lit(3)>>),
      Call("f", <<Plus(Lit(1), Lit(1)), Lit(2)>>),
      Call("f", <<Lit(1), Plus(Lit(1), Lit(1))>>),
      Call("g", <<>>),
      DeclarationSyntax("INT_TYPE", "c", Call("f", <<>>)) }

StraightLinePrograms == SeqsUpTo(SimpleStatements, MaxStmts)

OneFunctionPrograms ==
    { prelude \o <<Fn("f", ps, g, body), use>> :
        prelude \in {<<>>, <<DeclarationSyntax("INT_TYPE", "a", Lit(1))>>},
        ps \in Parameters,
        g \in {"None", "INT_TYPE"},
        body \in SeqsUpTo(BodyStatements, MaxBody),
        use \in Uses }

\* Programs in which the function f calls the function g, defined before f
\* or inside f, under a global variable a.
InnerBodies ==
    { <<AssignmentSyntax("a", Lit(2))>>,
      <<AssignmentSyntax("a", Lit(2)), GiveSyntax(Var("a"))>>,
      <<GiveSyntax(Var("a"))>>,
      <<DeclarationSyntax("INT_TYPE", "a", Lit(3)), AssignmentSyntax("a", Lit(4))>> }

OuterBodies ==
    { <<Call("g", <<>>)>>,
      <<DeclarationSyntax("INT_TYPE", "a", Lit(5)), Call("g", <<>>)>>,
      <<DeclarationSyntax("BOOL_TYPE", "a", True), Call("g", <<>>)>>,
      <<AssignmentSyntax("a", Lit(6)), Call("g", <<>>)>>,
      <<Call("g", <<>>), GiveSyntax(Var("a"))>>,
      <<DeclarationSyntax("INT_TYPE", "a", Lit(5)), GiveSyntax(Call("g", <<>>))>>,
      <<DeclarationSyntax("INT_TYPE", "c", Call("g", <<>>))>> }

TwoFunctionPrograms ==
    { IF nested
      THEN <<DeclarationSyntax("INT_TYPE", "a", Lit(1)),
             Fn("f", <<>>, gf, <<Fn("g", <<>>, gg, inner)>> \o outer), use>>
      ELSE <<DeclarationSyntax("INT_TYPE", "a", Lit(1)),
             Fn("g", <<>>, gg, inner), Fn("f", <<>>, gf, outer), use>> :
        nested \in BOOLEAN,
        gg \in {"None", "INT_TYPE"}, inner \in InnerBodies,
        gf \in {"None", "INT_TYPE"}, outer \in OuterBodies,
        use \in {Call("f", <<>>), DeclarationSyntax("INT_TYPE", "c", Call("f", <<>>))} }

\* Programs of one give, at the top level or in a function f.
GiveExpressions ==
    { Lit(1), True, Plus(Lit(1), Lit(1)), UnaryOperationSyntax("MINUS", Lit(1)) }

GivePrograms ==
    { <<GiveSyntax(e)>> : e \in GiveExpressions }
    \cup { <<Fn("f", <<>>, g, <<GiveSyntax(e)>>)>> :
              g \in {"None", "INT_TYPE", "BOOL_TYPE"}, e \in GiveExpressions }

\* Programs that declare c with the value of a call of inc, a function of
\* one parameter a that gives a or a + 1, alone or after an assignment.
IncPrograms ==
    { <<Fn("inc", <<Declare("INT_TYPE", "a")>>, "INT_TYPE", body),
        DeclarationSyntax("INT_TYPE", "c", Call("inc", <<Lit(v)>>))>> :
        body \in { <<GiveSyntax(Plus(Var("a"), Lit(1)))>>,
                   <<GiveSyntax(Var("a"))>>,
                   <<GiveSyntax(Var("a")), AssignmentSyntax("a", Lit(3))>>,
                   <<AssignmentSyntax("a", Lit(3)), GiveSyntax(Var("a")),
                     GiveSyntax(Lit(4))>> },
        v \in {1, 2} }

Programs ==
    StraightLinePrograms \cup OneFunctionPrograms \cup TwoFunctionPrograms
    \cup GivePrograms \cup IncPrograms

\* The root the parser returns for a program, and the sink it leaves: the
\* source is the program, or the program with one character that starts no
\* token before the last newline, which the lexer reports and skips.
Parsed(ss, stray) ==
    [root |-> Locate(ProgramSyntax(ss), 0).node,
     errors |-> IF stray
                THEN <<Error("UnknownTokenError", "Character is not known",
                             Locate(ProgramSyntax(ss), 0).next - 1)>>
                ELSE <<>>]

(***************************************************************************)
(* boink.main when parser_.parse has returned.                             *)
(***************************************************************************)
Init ==
    /\ \E ss \in Programs, stray \in BOOLEAN :
          /\ root = Parsed(ss, stray).root
          /\ errors = Parsed(ss, stray).errors
    /\ text = <<>>
    /\ lexer_pos = 0
    /\ current_token = NoToken
    /\ scopes = <<>>
    /\ current_scope = 0
    /\ an_stack = <<>>
    /\ stage = "analyze"
    /\ exc = "None"
    /\ call_stack = <<>>
    /\ ctl = <<>>
    /\ ret = PyNone

Next ==
    \/ VisitProgram
    \/ VisitDeclaration
    \/ VisitAssignment
    \/ VisitFunctionCall
    \/ VisitGive
    \/ VisitFunction
    \/ VisitFunctionEnd
    \/ VisitProgramEnd
    \/ Main
    \/ Interpreter_visit_program_syntax
    \/ ProgramStatement
    \/ ProgramEnd
    \/ Interpreter_visit_declaration_syntax
    \/ DeclarationStore
    \/ Interpreter_visit_assignment_syntax
    \/ AssignmentStore
    \/ Interpreter_visit_variable_syntax
    \/ Interpreter_visit_literal_syntax
    \/ Interpreter_visit_parenthesized_syntax
    \/ Interpreter_visit_binary_operation_syntax
    \/ BinaryRight
    \/ BinaryApply
    \/ Interpreter_visit_give_syntax
    \/ Interpreter_visit_function_syntax
    \/ Interpreter_visit_function_call_syntax
    \/ CallArgument
    \/ CallBind
    \/ CallPush
    \/ CallStatement
    \/ CallReturn

Spec == Init /\ [][Next]_vars

(***************************************************************************)
(* Properties.                                                             *)
(***************************************************************************)

\* The errors the step reports.
NewErrors == SubSeq(errors', Len(errors) + 1, Len(errors'))
Reports(errs, cls, pos) == \E i \in 1..Len(errs) : errs[i].cls = cls /\ errs[i].pos = pos
CountOf(errs, cls) == Cardinality({i \in 1..Len(errs) : errs[i].cls = cls})

\* C1: the interpreter is started only when the sink is empty after lexing,
\* parsing and analysis; with an error in the sink no activation record is
\* ever pushed, no visit of the interpreter is ever pending, and what
\* boink.main does at the gate is to report the errors.
C1_InterpreterOnlyOnEmptySink ==
    /\ stage \in {"interpret", "executed"} => errors = <<>>
    /\ errors # <<>> => call_stack = <<>> /\ ctl = <<>>
    /\ errors # <<>> /\ stage \notin {"analyze", "gate", "crashed"} => stage = "reported"
    /\ stage = "reported" => errors # <<>>

\* C1, witness: errors were reported instead of an execution, for a program
\* whose analysis found nothing (the only error is the lexer's).
C1_Witness ==
    /\ stage = "reported"
    /\ Len(errors) = 1
    /\ errors[1].cls = "UnknownTokenError"
    /\ root.statements # <<>>
    /\ call_stack = <<>>

\* C2: the pipeline ends executed or reported, no stage aborts with a host
\* exception.
C2_NoStageAborts == stage # "crashed" /\ exc = "None"


\* C3: in the interpretation of a program the analyzer accepted, the name a
\* Variable node reads and the name an Assignment targets are found in the
\* record on top of the stack or in its chain of parents when they are
\* looked up.
C3_NoLookupMiss ==
    /\ Dispatch({"VariableSyntax"}) =>
          ~Raised(getitem(call_stack, peek, Top.node.name))
    /\ Resume("assignment") =>
          ~Raised(getitem(call_stack, peek, Top.node.var.name))

\* What the record at position r of the stack observes for the name key.
Observed(stack, r, key) ==
    LET var == getitem(stack, r, key)
    IN  var.stack[var.at].members[key]

Names == {"a", "b", "c", "f", "g"}

\* The steps that bind or assign in the record on top of the stack.
Stores ==
    \/ Resume("declaration")
    \/ Resume("assignment")
    \/ Dispatch({"DeclarationSyntax", "FunctionSyntax"})

\* C4: copy-on-access.  No step changes what a record below the top of the
\* stack (the caller and every other ancestor of the running callee)
\* observes for a name, and the record on top changes what it observes only
\* by a declaration or an assignment of its own.  So from the visit of a
\* call to its return, whatever the callee assigns, the caller and the
\* ancestors observe after the return the values they observed before.
C4_CopyOnAccess ==
    [][\A r \in 1..Len(call_stack), key \in Names :
          ( /\ r <= Len(call_stack')
            /\ ~Raised(getitem(call_stack, r, key))
            /\ r < Len(call_stack) \/ ~Stores )
          => Observed(call_stack', r, key) = Observed(call_stack, r, key)]_vars

\* C4, witness: f has called g, g has assigned 2 to the a it inherits
\* through f from the program, and has returned; f, which got its a by the
\* access of g, and the program both hold 1.
C4_Witness ==
    /\ Resume("call")
    /\ Top.node.name = "f"
    /\ Top.at = "body"
    /\ Top.i = 2
    /\ Top.func_symbol.val.items[1].kind = "FunctionCallSyntax"
    /\ Len(call_stack) = 2
    /\ "g" \in DOMAIN call_stack[1].members
    /\ call_stack[1].members["g"].val.items[1].kind = "AssignmentSyntax"
    /\ "a" \in DOMAIN call_stack[2].members
    /\ call_stack[2].members["a"].val = PyInt(1)
    /\ call_stack[1].members["a"].val = PyInt(1)

\* A sum of int literals and of variables among declared.
RECURSIVE IsIntSum(_, _)
IsIntSum(e, declared) ==
    \/ e.kind = "IntLiteralSyntax"
    \/ e.kind = "VariableSyntax" /\ e.name \in declared
    \/ /\ e.kind = "BinaryOperationSyntax"
       /\ e.op = "PLUS"
       /\ IsIntSum(e.left, declared)
       /\ IsIntSum(e.right, declared)

\* int declarations of different names, each initialized by an int literal
\* or by a sum of int literals and of variables declared before.
IsIntDeclarations(ss) ==
    \A i \in 1..Len(ss) :
        /\ ss[i].kind = "DeclarationSyntax"
        /\ ss[i].var_type = "INT_TYPE"
        /\ \A j \in 1..(i - 1) : ss[j].name # ss[i].name
        /\ \/ ss[i].expr.kind = "IntLiteralSyntax"
           \/ /\ ss[i].expr.kind = "BinaryOperationSyntax"
              /\ IsIntSum(ss[i].expr, {ss[j].name : j \in 1..(i - 1)})

RECURSIVE SumOf(_, _)
SumOf(e, env) ==
    CASE e.kind = "IntLiteralSyntax" -> e.val.n
      [] e.kind = "VariableSyntax" -> env[e.name]
      [] OTHER -> SumOf(e.left, env) + SumOf(e.right, env)

\* The integers the first i declarations bind.
RECURSIVE Bindings(_, _)
Bindings(ss, i) ==
    IF i = 0 THEN <<>>
    ELSE LET env == Bindings(ss, i - 1)
         IN  [n \in DOMAIN env \cup {ss[i].name} |->
                 IF n = ss[i].name THEN SumOf(ss[i].expr, env) ELSE env[n]]

\* C5: for a source that is a sequence of such int declarations the pipeline
\* records no error and does not abort, and when all statements have
\* executed the record of the program binds each name to the value of its
\* initializer.
C5_IntDeclarations ==
    (IsIntDeclarations(root.statements) /\ CountOf(errors, "UnknownTokenError") = 0)
    => /\ errors = <<>>
       /\ stage \notin {"crashed", "reported"}
       /\ (Resume("program") /\ Top.i > Len(root.statements)) =>
             \A n \in DOMAIN Bindings(root.statements, Len(root.statements)) :
                /\ n \in DOMAIN call_stack[1].members
                /\ call_stack[1].members[n].val =
                      PyInt(Bindings(root.statements, Len(root.statements))[n])

\* The analyzer is at a call statement; Callee is what its name resolves to.
AtCall == AnVisiting /\ AnStatement.kind = "FunctionCallSyntax"
Callee == lookup(scopes, current_scope, AnStatement.name)

\* The type the analyzer resolves for the i-th argument of the call.
ArgumentType(i) ==
    get_type(STB_visit_expr(AnStatement.args[i], current_scope, scopes).node)

\* C6: the visit of a call of a function with as many arguments as
\* parameters, each of a type the analyzer resolves, records an
\* IncompatibleTypesError for the call exactly when some argument has a type
\* other than the type of the parameter at its position.
C6_ArgumentTypes ==
    [][( /\ AtCall
         /\ Callee.cls = "FunctionSymbol"
         /\ Len(AnStatement.args) = Len(Callee.arg_types)
         /\ \A i \in 1..Len(AnStatement.args) : ~Raised(ArgumentType(i)) )
       => ( Reports(NewErrors, "IncompatibleTypesError", AnStatement.pos)
            <=> \E i \in 1..Len(AnStatement.args) :
                   ArgumentType(i).type # Callee.arg_types[i] )]_vars

\* The ArgumentMismatchErrors the step records for the call at pos.
Mismatches(pos) ==
    {i \in 1..Len(NewErrors) :
        NewErrors[i].cls = "ArgumentMismatchError" /\ NewErrors[i].pos = pos}

\* C7: the visit of a call of a function records one ArgumentMismatchError
\* for the call when the numbers of arguments and of parameters differ,
\* saying too many or too few, and none when they are equal.
C7_ArgumentCount ==
    [][(AtCall /\ Callee.cls = "FunctionSymbol")
       => LET n == Len(AnStatement.args)
              m == Len(Callee.arg_types)
          IN  /\ Cardinality(Mismatches(AnStatement.pos)) = (IF n = m THEN 0 ELSE 1)
              /\ \A i \in Mismatches(AnStatement.pos) :
                    NewErrors[i].msg = IF n > m
                                       THEN "Too many arguments for function call"
                                       ELSE "Too few arguments for function call"]_vars

\* C8: the visit of a call statement whose name does not resolve to a
\* FunctionSymbol records an UndefinedSymbolError for the call, and the
\* analysis goes on with the next statement.
C8_CalleeNotAFunction ==
    [][(AtCall /\ Callee.cls # "FunctionSymbol")
       => /\ Reports(NewErrors, "UndefinedSymbolError", AnStatement.pos)
          /\ stage' = "analyze"
          /\ Len(an_stack') = Len(an_stack)
          /\ an_stack'[Len(an_stack)].i = AnTop.i + 1]_vars

\* C9: the visit of a declaration of a name the current scope defines
\* records a MultipleDefinitionError and nothing else, and changes no scope.
\* The visit of a declaration of any other name, a name enclosing scopes
\* define included, records no MultipleDefinitionError (and no error at all
\* when there is no initializer to check), defines the variable in the
\* current scope, and changes no other symbol and no other scope.
C9_DeclarationInCurrentScope ==
    [][(AnVisiting /\ AnStatement.kind = "DeclarationSyntax")
       => IF AnStatement.name \in DOMAIN scopes[current_scope].symbols
          THEN /\ NewErrors = <<Error("MultipleDefinitionError",
                                      "Variable is already defined", AnStatement.pos)>>
               /\ scopes' = scopes
          ELSE /\ CountOf(NewErrors, "MultipleDefinitionError") = 0
               /\ AnStatement.expr.kind = "NoneType" => NewErrors = <<>>
               /\ Len(scopes') = Len(scopes)
               /\ \A t \in 1..Len(scopes) : t # current_scope => scopes'[t] = scopes[t]
               /\ AnStatement.name \in DOMAIN scopes'[current_scope].symbols
               /\ scopes'[current_scope].symbols[AnStatement.name] =
                     VarSymbol(get_type_by_token_type(AnStatement.var_type),
                               AnStatement.name)
               /\ \A n \in DOMAIN scopes[current_scope].symbols :
                     scopes'[current_scope].symbols[n] = scopes[current_scope].symbols[n]]_vars

\* C9, witness: the body of a function has declared twice a name the global
\* scope defines; the first declaration defined it in the scope of the
\* function, the second recorded the one MultipleDefinitionError.
C9_Witness ==
    /\ stage = "analyze"
    /\ Len(an_stack) = 2
    /\ current_scope = 2
    /\ AnTop.i = 3
    /\ AnTop.node.statements[1].kind = "DeclarationSyntax"
    /\ AnTop.node.statements[2].kind = "DeclarationSyntax"
    /\ AnTop.node.statements[1].name = AnTop.node.statements[2].name
    /\ AnTop.node.statements[1].name \in DOMAIN scopes[1].symbols
    /\ AnTop.node.statements[1].name \in DOMAIN scopes[2].symbols
    /\ scopes[1].symbols[AnTop.node.statements[1].name].cls = "VarSymbol"
    /\ CountOf(errors, "MultipleDefinitionError") = 1

\* C10: the visit of an assignment records an UndefinedSymbolError when the
\* target does not resolve; when it resolves, an IncompatibleTypesError at
\* the assignment when the type resolved for the expression is not the type
\* of the target, and no error of the assignment when it is.
C10_Assignment ==
    [][(AnVisiting /\ AnStatement.kind = "AssignmentSyntax")
       => LET symbol == lookup(scopes, current_scope, AnStatement.var.name)
              t == get_type(STB_visit_expr(AnStatement.expr, current_scope, scopes).node)
          IN  IF symbol.cls = "None"
              THEN Reports(NewErrors, "UndefinedSymbolError", AnStatement.var.pos)
              ELSE /\ ~Reports(NewErrors, "UndefinedSymbolError", AnStatement.var.pos)
                   /\ ~Raised(t) =>
                         ( Reports(NewErrors, "IncompatibleTypesError", get_pos(AnStatement))
                           <=> t.type # symbol.var_type )]_vars


\* The loop of visit_function_syntax over the statements of a function is
\* over.
AtFunctionEnd ==
    /\ stage = "analyze"
    /\ Len(an_stack) > 1
    /\ AnTop.i > Len(AnTop.node.statements)

\* The function lists a Give among its statements.
ListsGive(node) ==
    \E i \in 1..Len(node.statements) : node.statements[i].kind = "GiveSyntax"

\* C11: at the end of the visit of a function that declares a give type and
\* lists no Give, the analyzer records the no-give error for the function
\* and the analysis goes on; at the end of the visit of any other function
\* it records no such error.
C11_NoGive ==
    [][AtFunctionEnd
       => IF AnTop.node.give_type_syntax # "None" /\ ~ListsGive(AnTop.node)
          THEN /\ \/ Reports(NewErrors, "NoGiveError", AnTop.node.pos)
                  \/ Reports(NewErrors, "NotGivenError", AnTop.node.pos)
               /\ stage' = "analyze"
          ELSE /\ CountOf(NewErrors, "NoGiveError") = 0
               /\ CountOf(NewErrors, "NotGivenError") = 0]_vars

\* The errors of class cls the step records at pos.
RecordedAt(cls, pos) ==
    {i \in 1..Len(NewErrors) : NewErrors[i].cls = cls /\ NewErrors[i].pos = pos}

\* C12: the visit of a Give records, for the Give, one GiveNotAllowedError
\* when the scope has no owner; else one IncompatibleTypesError when the
\* owner has no give type, or when the type resolved for the expression is
\* not the give type; and nothing when it is the give type.
C12_Give ==
    [][(AnVisiting /\ AnStatement.kind = "GiveSyntax")
       => LET owner == scopes[current_scope].owner
              t == get_type(STB_visit_expr(AnStatement.expr, current_scope, scopes).node)
              notAllowed == Cardinality(RecordedAt("GiveNotAllowedError", AnStatement.pos))
              incompatible == Cardinality(RecordedAt("IncompatibleTypesError", AnStatement.pos))
          IN  IF owner.cls = "None"
              THEN notAllowed = 1 /\ incompatible = 0
              ELSE IF owner.give_type = "None"
              THEN notAllowed = 0 /\ incompatible = 1
              ELSE ~Raised(t) =>
                      /\ notAllowed = 0
                      /\ incompatible = (IF t.type # owner.give_type THEN 1 ELSE 0)]_vars


(***************************************************************************)
(* builtin_types.py: the operator type rules.  A rule is a classmethod of  *)
(* the type on the left, given the type on the right; its result is the    *)
(* type it returns and the exception that ended it, if any.                *)
(***************************************************************************)
Typed(t) == [type |-> t, exc |-> "None"]

\* ErrorHandler.error(IncompatibleTypesError(...)): error is a method of an
\* instance, called here on the class with the error for self, so the call
\* raises TypeError (err is missing) and nothing is recorded.
Unsupported == [type |-> "None", exc |-> "TypeError"]

\* int_.addition_type, float_.addition_type, type_.addition_type
addition_type(cls, other_type) ==
    CASE cls = "int_" ->
            IF other_type = "float_" THEN Typed("float_")
            ELSE IF other_type = "int_" THEN Typed("int_")
            ELSE Unsupported
      [] cls = "float_" ->
            IF other_type = "float_" THEN Typed("float_")
            ELSE IF other_type = "int_" THEN Typed("float_")
            ELSE Unsupported
      [] OTHER -> Unsupported

subtraction_type(cls, other_type) ==
    CASE cls = "int_" ->
            IF other_type = "float_" THEN Typed("float_")
            ELSE IF other_type = "int_" THEN Typed("int_")
            ELSE Unsupported
      [] cls = "float_" ->
            IF other_type = "float_" THEN Typed("float_")
            ELSE IF other_type = "int_" THEN Typed("float_")
            ELSE Unsupported
      [] OTHER -> Unsupported

multiplication_type(cls, other_type) ==
    CASE cls = "int_" ->
            IF other_type = "float_" THEN Typed("float_")
            ELSE IF other_type = "int_" THEN Typed("float_")
            ELSE Unsupported
      [] cls = "float_" ->
            IF other_type = "float_" THEN Typed("float_")
            ELSE IF other_type = "int_" THEN Typed("float_")
            ELSE Unsupported
      [] OTHER -> Unsupported

division_type(cls, other_type) ==
    CASE cls = "int_" ->
            IF other_type = "float_" THEN Typed("float_")
            ELSE IF other_type = "int_" THEN Typed("float_")
            ELSE Unsupported
      [] cls = "float_" ->
            IF other_type = "float_" THEN Typed("float_")
            ELSE IF other_type = "int_" THEN Typed("float_")
            ELSE Unsupported
      [] OTHER -> Unsupported

and_type(cls, other_type) ==
    IF cls = "bool_" /\ other_type = "bool_" THEN Typed("bool_") ELSE Unsupported

or_type(cls, other_type) ==
    IF cls = "bool_" /\ other_type = "bool_" THEN Typed("bool_") ELSE Unsupported

\* type_.compare_type, which no class overrides
compare_type(cls, other_type) ==
    IF cls # other_type THEN Unsupported ELSE Typed("bool_")

\* The rule of the type on the left that an operator stands for.
type_rule(op, cls, other_type) ==
    CASE op = "PLUS" -> addition_type(cls, other_type)
      [] op = "MINUS" -> subtraction_type(cls, other_type)
      [] op = "STAR" -> multiplication_type(cls, other_type)
      [] op = "SLASH" -> division_type(cls, other_type)
      [] op = "AMPERSAND_AMPERSAND" -> and_type(cls, other_type)
      [] op = "PIPE_PIPE" -> or_type(cls, other_type)
      [] OTHER -> compare_type(cls, other_type)

(***************************************************************************)
(* Specification TypeSpec: the type of one binary operation over operands  *)
(* of every type, computed in the two ways the code has: by get_type of    *)
(* the node, and by the rule of builtin_types.py that the operator stands  *)
(* for, called with the types of the operands.  The operands are literals  *)
(* and a variable the analysis has given the type dyn_.                    *)
(***************************************************************************)
TypedOperands ==
    { IntLiteralSyntax(1), FloatLiteralSyntax(1, 2), BoolLiteralSyntax(TRUE),
      [VariableSyntax("a") EXCEPT !.var_type = "dyn_"] }

RuleOperators == BinaryOperators \cup {"EQUALS_EQUALS"}

TypeInit ==
    /\ \E l \in TypedOperands, r \in TypedOperands, op \in RuleOperators :
          root = Locate(BinaryOperationSyntax(l, op, r), 0).node
    /\ errors = <<>>
    /\ text = <<>>
    /\ lexer_pos = 0
    /\ current_token = NoToken
    /\ scopes = <<>>
    /\ current_scope = 0
    /\ an_stack = <<>>
    /\ stage = "types"
    /\ exc = "None"
    /\ call_stack = <<>>
    /\ ctl = <<>>
    /\ ret = "None"

\* The step ends with the type r, or with the exception of r.
TypeResult(r, done) ==
    /\ IF Raised(r)
       THEN stage' = "crashed" /\ exc' = r.exc /\ ret' = ret
       ELSE stage' = done /\ exc' = exc /\ ret' = r.type
    /\ UNCHANGED <<lexVars, root, errors, anVars, call_stack, ctl>>

\* node.get_type()
GetType ==
    /\ stage = "types"
    /\ TypeResult(get_type(root), "typed")

\* lType.<rule>(rType, pos), with the name builtin_types.py gives the rule
TypeRule ==
    /\ stage = "types"
    /\ TypeResult(type_rule(root.op, get_type(root.left).type,
                            get_type(root.right).type), "ruled")

TypeNext ==
    \/ GetType
    \/ TypeRule

TypeSpec == TypeInit /\ [][TypeNext]_vars

lType == get_type(root.left).type
rType == get_type(root.right).type
Numeric == {"int_", "float_"}

\* C13: over operands of types int_ and float_, the division rule gives
\* float_, and the multiplication rule gives int_ for two int_ and float_
\* for the other pairs.
C13_MultiplicativeTypes ==
    (stage = "ruled" /\ lType \in Numeric /\ rType \in Numeric)
    => /\ root.op = "SLASH" => ret = "float_"
       /\ root.op = "STAR" =>
             ret = IF lType = "int_" /\ rType = "int_" THEN "int_" ELSE "float_"

\* C14: the type of a + or - expression over operands of types int_ and
\* float_ is computed, without an exception and without an error in the
\* sink, as int_ for two int_ and as float_ for the other pairs.
C14_AdditiveTypes ==
    (root.op \in {"PLUS", "MINUS"} /\ lType \in Numeric /\ rType \in Numeric)
    => /\ stage # "crashed"
       /\ stage \in {"typed", "ruled"} =>
             /\ ret = IF lType = "int_" /\ rType = "int_" THEN "int_" ELSE "float_"
             /\ errors = <<>>

\* The operand pairs C15 says are errors.
BoolError ==
    \/ root.op \in {"AMPERSAND_AMPERSAND", "PIPE_PIPE"}
          /\ ~(lType = "bool_" /\ rType = "bool_")
    \/ root.op \in {"PLUS", "MINUS", "STAR", "SLASH"} /\ lType = "bool_"

\* What the claims ask of a rule that rejects its operands: it has returned
\* no type, one IncompatibleTypesError is in the sink, nothing was raised.
Rejected ==
    /\ ~(stage = "crashed" /\ exc = "TypeError")
    /\ stage = "ruled" =>
          /\ ret = "None"
          /\ Len(errors) = 1
          /\ errors[1].cls = "IncompatibleTypesError"

\* C15: the rules of && and || give bool_ for two bool_; for any other pair,
\* and for an arithmetic rule with bool_ on the left, the rule records an
\* IncompatibleTypesError, returns no type and raises nothing.
C15_BoolRules ==
    /\ ( /\ root.op \in {"AMPERSAND_AMPERSAND", "PIPE_PIPE"}
         /\ lType = "bool_" /\ rType = "bool_"
         /\ stage = "ruled" ) => ret = "bool_" /\ errors = <<>>
    /\ ( /\ root.op \in {"AMPERSAND_AMPERSAND", "PIPE_PIPE"}
         /\ stage = "ruled" /\ ret = "bool_" ) => lType = "bool_" /\ rType = "bool_"
    /\ BoolError => Rejected

\* C16: every rule with dyn_ on the left, whatever is on the right, records
\* an IncompatibleTypesError and returns no type.
C16_DynamicRules == lType = "dyn_" => Rejected


(***************************************************************************)
(* lexer.py.  The text is a sequence of characters, a character a string   *)
(* of length one; positions count from 0 as in the code.  "None" stands    *)
(* for Python's None where a character is expected.  A function of the     *)
(* lexer takes the cursor and the sink, and returns what it changed.       *)
(***************************************************************************)
PyStr(str) == [t |-> "str", n |-> 0, d |-> 1, s |-> str]

Token(token_type, val, p) == [token_type |-> token_type, val |-> val, pos |-> p]

KEYWORDS ==
    [w \in {"fn", "dyn", "int", "false", "true", "bool", "float", "give", "if"} |->
        CASE w = "fn" -> "FUNC_DEF"
          [] w = "dyn" -> "DYNAMIC_TYPE"
          [] w = "int" -> "INT_TYPE"
          [] w = "false" -> "BOOL_LITERAL"
          [] w = "true" -> "BOOL_LITERAL"
          [] w = "bool" -> "BOOL_TYPE"
          [] w = "float" -> "FLOAT_TYPE"
          [] w = "give" -> "GIVE"
          [] w = "if" -> "IF"]

\* str.isdigit and str.isalpha, over the characters of ASCII
isdigit(c) == c \in {"0", "1", "2", "3", "4", "5", "6", "7", "8", "9"}
isalpha(c) ==
    c \in {"a", "b", "c", "d", "e", "f", "g", "h", "i", "j", "k", "l", "m",
           "n", "o", "p", "q", "r", "s", "t", "u", "v", "w", "x", "y", "z",
           "A", "B", "C", "D", "E", "F", "G", "H", "I", "J", "K", "L", "M",
           "N", "O", "P", "Q", "R", "S", "T", "U", "V", "W", "X", "Y", "Z"}

current_char(p) == IF p > Len(text) - 1 THEN "None" ELSE text[p + 1]

Lexer_peek(p, amount) ==
    IF p + amount < Len(text) - 1 THEN text[p + amount + 1] ELSE "None"

\* is_ahead: the loop from index on; chars is the text looked for.
RECURSIVE is_ahead_from(_, _, _)
is_ahead_from(p, chars, index) ==
    IF index < Len(chars)
    THEN IF Lexer_peek(p, index) # chars[index + 1] THEN FALSE
         ELSE IF Lexer_peek(p, index + 1) = "None" THEN FALSE
         ELSE is_ahead_from(p, chars, index + 1)
    ELSE TRUE

is_ahead(p, chars) == is_ahead_from(p, chars, 0)

\* The cursor after the digits (letters) that start at p.
RECURSIVE after_digits(_)
after_digits(p) ==
    IF current_char(p) # "None" /\ isdigit(current_char(p))
    THEN after_digits(p + 1) ELSE p

RECURSIVE after_letters(_)
after_letters(p) ==
    IF current_char(p) # "None" /\ isalpha(current_char(p))
    THEN after_letters(p + 1) ELSE p

\* int() of the digits in text[from..to-1], continuing the number acc.
RECURSIVE int_of(_, _, _)
int_of(from, to, acc) ==
    IF from >= to THEN acc
    ELSE int_of(from + 1, to,
                10 * acc + (CHOOSE v \in 0..9 :
                               text[from + 1] = <<"0", "1", "2", "3", "4", "5",
                                                  "6", "7", "8", "9">>[v + 1]))

RECURSIVE power_of_ten(_)
power_of_ten(k) == IF k = 0 THEN 1 ELSE 10 * power_of_ten(k - 1)

\* The characters text[from..to-1] as one string.
RECURSIVE str_of(_, _)
str_of(from, to) ==
    IF from >= to THEN "" ELSE text[from + 1] \o str_of(from + 1, to)

\* float(result) is the quotient of the digits by the power of ten of the
\* digits after the point.
get_next_number_token(p) ==
    LET e == after_digits(p)
    IN  IF current_char(e) = "."
        THEN LET f == after_digits(e + 1)
             IN  [token |-> Token("FLOAT_LITERAL",
                                  PyFloat(int_of(e + 1, f, int_of(p, e, 0)),
                                          power_of_ten(f - e - 1)), p),
                  pos |-> f]
        ELSE [token |-> Token("INT_LITERAL", PyInt(int_of(p, e, 0)), p), pos |-> e]

get_next_word_token(p) ==
    LET e == after_letters(p)
        result == str_of(p, e)
    IN  IF result \in DOMAIN KEYWORDS
        THEN [token |-> Token(KEYWORDS[result],
                              IF KEYWORDS[result] = "BOOL_LITERAL"
                              THEN PyBool(result = "true") ELSE PyStr(result), p),
              pos |-> e]
        ELSE [token |-> Token("WORD", PyStr(result), p), pos |-> e]

RECURSIVE ignore_white_space(_)
ignore_white_space(p) ==
    IF current_char(p) # "None" /\ current_char(p) = " "
    THEN ignore_white_space(p + 1) ELSE p

RECURSIVE ignore_comment(_)
ignore_comment(p) ==
    IF current_char(p) \notin {"\n", "None"} THEN ignore_comment(p + 1) ELSE p

\* The tokens of one character.
SingleCharacter(c) ==
    CASE c = "+" -> "PLUS"
      [] c = "," -> "COMMA"
      [] c = "-" -> "MINUS"
      [] c = "*" -> "STAR"
      [] c = "/" -> "SLASH"
      [] c = "(" -> "L_PAR"
      [] c = ")" -> "R_PAR"
      [] c = "=" -> "EQUALS"
      [] c = ";" -> "SEMI_COLON"
      [] c = "\n" -> "NEW_LINE"
      [] c = ">" -> "GREATER"
      [] c = "<" -> "LESS"
      [] OTHER -> "None"

\* The branches of get_next_token that look ahead, by their first character.
LookAhead(c) ==
    CASE c = "-" -> [chars |-> <<"-", ">">>, token_type |-> "RIGHT_ARROW", val |-> "->"]
      [] c = "=" -> [chars |-> <<"=", "=">>, token_type |-> "EQUALS_EQUALS", val |-> "=="]
      [] c = ">" -> [chars |-> <<">", "=">>, token_type |-> "GREATER_EQUALS", val |-> ">="]
      [] c = "<" -> [chars |-> <<"<", "=">>, token_type |-> "LESS_EQUALS", val |-> "<="]
      [] OTHER -> [chars |-> <<>>, token_type |-> "None", val |-> ""]

\* get_next_token with the cursor at p and the sink errs: the token, the
\* cursor after it, and the sink with the UnknownTokenErrors of the
\* characters skipped on the way.
RECURSIVE get_next_token(_, _)

\* get_next_token after ignore_white_space, c the character at the cursor p
TokenAt(p, c, errs) ==
        IF c = "#" THEN get_next_token(ignore_comment(p), errs)
        ELSE IF c = "None"
        THEN [token |-> Token("EOF", PyNone, p), pos |-> p, errors |-> errs]
        ELSE IF isdigit(c)
        THEN [errors |-> errs] @@ get_next_number_token(p)
        ELSE IF isalpha(c)
        THEN [errors |-> errs] @@ get_next_word_token(p)
        ELSE IF LookAhead(c).token_type # "None" /\ is_ahead(p, LookAhead(c).chars)
        THEN [token |-> Token(LookAhead(c).token_type, PyStr(LookAhead(c).val), p),
              pos |-> p + 2, errors |-> errs]
        ELSE IF SingleCharacter(c) # "None"
        THEN [token |-> Token(SingleCharacter(c), PyStr(c), p),
              pos |-> p + 1, errors |-> errs]
        ELSE IF is_ahead(p, <<"&", "&">>)
        THEN [token |-> Token("AMPERSAND_AMPERSAND", PyStr("&&"), p),
              pos |-> p + 2, errors |-> errs]
        ELSE IF is_ahead(p, <<"|", "|">>)
        THEN [token |-> Token("PIPE_PIPE", PyStr("||"), p),
              pos |-> p + 2, errors |-> errs]
        ELSE get_next_token(p + 1,
                 Append(errs, Error("UnknownTokenError", "Character is not known", p)))

AfterWhiteSpace(p, errs) == TokenAt(p, current_char(p), errs)

\* get_next_token with a sink that forgets what it held.
get_next_token_forgetting(p, errs) == AfterWhiteSpace(ignore_white_space(p), <<>>)

get_next_token(p, errs) == AfterWhiteSpace(ignore_white_space(p), errs)

(***************************************************************************)
(* Specification LexSpec: a Lexer constructed on a text, and the calls of  *)
(* get_next_token that read the text to its end.  At the end the lexer     *)
(* returns EOF again and again, which changes nothing.                     *)
(***************************************************************************)
MaxText == 4        \* characters of a text given to the Lexer

LexCharacters == {"-", ">", "=", "<", "&", "|", "a", "1", ".", " ", "\n", "#", "@"}

LexTexts == UNION { [1..n -> LexCharacters] : n \in 0..MaxText }

LexInit ==
    /\ text \in LexTexts
    /\ lexer_pos = 0
    /\ current_token = NoToken
    /\ errors = <<>>
    /\ root = NoneNode
    /\ scopes = <<>>
    /\ current_scope = 0
    /\ an_stack = <<>>
    /\ stage = "lex"
    /\ exc = "None"
    /\ call_stack = <<>>
    /\ ctl = <<>>
    /\ ret = PyNone

\* A lexer that starts over from the top of the text at its end.
GetNextTokenRewinding ==
    /\ stage = "lex"
    /\ LET r == get_next_token(lexer_pos, errors)
       IN  /\ current_token' = r.token
           /\ lexer_pos' = IF r.token.token_type = "EOF" THEN 0 ELSE r.pos
           /\ errors' = r.errors
    /\ UNCHANGED <<text, root, anVars, stage, exc, inVars>>

\* token = lexer.get_next_token()
GetNextToken ==
    /\ stage = "lex"
    /\ LET r == get_next_token(lexer_pos, errors)
       IN  /\ current_token' = r.token
           /\ lexer_pos' = r.pos
           /\ errors' = r.errors
    /\ UNCHANGED <<text, root, anVars, stage, exc, inVars>>

LexNext == GetNextToken

LexSpec == LexInit /\ [][LexNext]_vars

\* The two-character operator that starts at the cursor, "None" if none does.
OperatorAtCursor ==
    IF lexer_pos + 2 > Len(text) THEN "None"
    ELSE LET two == <<text[lexer_pos + 1], text[lexer_pos + 2]>>
         IN  CASE two = <<"-", ">">> -> "RIGHT_ARROW"
               [] two = <<"=", "=">> -> "EQUALS_EQUALS"
               [] two = <<">", "=">> -> "GREATER_EQUALS"
               [] two = <<"<", "=">> -> "LESS_EQUALS"
               [] two = <<"&", "&">> -> "AMPERSAND_AMPERSAND"
               [] two = <<"|", "|">> -> "PIPE_PIPE"
               [] OTHER -> "None"

\* C20: with the cursor at two characters that spell a two-character
\* operator, get_next_token returns that operator's token, positioned at the
\* cursor, and moves the cursor by two; it returns the token of the first
\* character alone only where no such operator starts.
C20_TwoCharacterOperators ==
    [][GetNextToken =>
          /\ OperatorAtCursor # "None" =>
                /\ current_token'.token_type = OperatorAtCursor
                /\ current_token'.pos = lexer_pos
                /\ lexer_pos' = lexer_pos + 2
          /\ ( /\ current_token'.token_type \in {"MINUS", "EQUALS", "GREATER", "LESS"}
               /\ current_token'.pos = lexer_pos ) => OperatorAtCursor = "None"]_vars


(***************************************************************************)
(* parse.py.  The state of a Parser is its current token, the cursor of    *)
(* its lexer, the sink, and the exception that left the parse, "None"      *)
(* while there is none.  A function of the parser takes the state and      *)
(* returns the state with the node (node) or the list of nodes (nodes) it  *)
(* built.  A type node is the type of its token, as in the trees above.    *)
(***************************************************************************)
TYPE_TOKENS == {"DYNAMIC_TYPE", "INT_TYPE", "BOOL_TYPE", "FLOAT_TYPE"}

BINARY_OPERATOR_TOKENS == {"PLUS", "MINUS", "AMPERSAND_AMPERSAND", "PIPE_PIPE"}

ParserState(p, token, errs) ==
    [pos |-> p, token |-> token, errors |-> errs, exc |-> "None"]

\* self.current_token = self.lexer.get_next_token()
Lexed(ps, r) == [ps EXCEPT !.pos = r.pos, !.token = r.token, !.errors = r.errors]

next_token(ps) == Lexed(ps, get_next_token(ps.pos, ps.errors))

UnexpectedTokenError(ps) ==
    [ps EXCEPT !.errors =
        Append(@, Error("UnexpectedTokenError", "Expected another token", ps.token.pos))]

consume(ps, token_type) ==
    IF ps.token.token_type = token_type
    THEN next_token(ps)
    ELSE next_token(UnexpectedTokenError(ps))

consume_multiple(ps, token_types) ==
    IF ps.token.token_type \in token_types
    THEN next_token(ps)
    ELSE UnexpectedTokenError(ps)

consume_optional(ps, token_type) ==
    IF ps.token.token_type = token_type THEN next_token(ps) ELSE ps

RECURSIVE consume_all_optional(_, _)
consume_all_optional(ps, token_type) ==
    IF ps.token.token_type = token_type
    THEN consume_all_optional(consume(ps, token_type), token_type)
    ELSE ps

consume_all(ps, token_type) ==
    consume_all_optional(consume(ps, token_type), token_type)

\* token.val where the code takes it for a name: the string of a word, and
\* the printed host value of any other token.
NameOf(token) == IF token.val.t = "str" THEN token.val.s ELSE ToString(token.val)

Built(ps, node) == [ps |-> ps, node |-> node]
BuiltList(ps, nodes) == [ps |-> ps, nodes |-> nodes]

RECURSIVE parse_factor(_)
RECURSIVE parse_term_loop(_)
RECURSIVE parse_term(_)
RECURSIVE parse_expression_loop(_)
RECURSIVE parse_expression(_)
RECURSIVE parse_call_arguments_loop(_, _)
RECURSIVE parse_call_arguments(_)
RECURSIVE parse_statement(_)
RECURSIVE parse_statements(_)

parse_variable(ps) ==
    Built(consume(ps, "WORD"),
          [VariableSyntax(NameOf(ps.token)) EXCEPT !.pos = ps.token.pos])

parse_int_literal(ps) ==
    Built(consume(ps, "INT_LITERAL"),
          [kind |-> "IntLiteralSyntax", val |-> ps.token.val, pos |-> ps.token.pos])

parse_float_literal(ps) ==
    Built(consume(ps, "FLOAT_LITERAL"),
          [kind |-> "FloatLiteralSyntax", val |-> ps.token.val, pos |-> ps.token.pos])

parse_bool_literal(ps) ==
    Built(consume(ps, "BOOL_LITERAL"),
          [kind |-> "BoolLiteralSyntax", val |-> ps.token.val, pos |-> ps.token.pos])

\* consume(R_PAR) and the node, after the inner expression r.
Parenthesized(r) == Built(consume(r.ps, "R_PAR"), ParenthesizedSyntax(r.node))

parse_parenthesized_expression(ps) ==
    Parenthesized(parse_expression(consume(ps, "L_PAR")))

\* UnaryOperationSyntax(token, r) and BinaryOperationSyntax(node, token, r),
\* r the operand parsed last.
Unary(token, r) ==
    Built(r.ps, [UnaryOperationSyntax(token.token_type, r.node) EXCEPT !.pos = token.pos])

Binary(node, token, r) ==
    Built(r.ps, BinaryOperationSyntax(node, token.token_type, r.node))

\* FunctionCallSyntax(var, args), r the arguments.
Called(var, r) ==
    Built(r.ps, [FunctionCallSyntax(var.name, r.nodes) EXCEPT !.pos = var.pos])

\* parse_factor after parse_variable returned v.
VariableOrCall(v) ==
    IF v.ps.token.token_type = "L_PAR"
    THEN Called(v.node, parse_call_arguments(v.ps))
    ELSE v

\* A token that starts no factor leaves parse_factor at its end: it returns
\* None and records nothing.
parse_factor(ps) ==
    CASE ps.token.token_type = "MINUS" ->
            Unary(ps.token, parse_factor(consume(ps, "MINUS")))
      [] ps.token.token_type = "PLUS" ->
            Unary(ps.token, parse_factor(consume(ps, "PLUS")))
      [] ps.token.token_type = "INT_LITERAL" -> parse_int_literal(ps)
      [] ps.token.token_type = "FLOAT_LITERAL" -> parse_float_literal(ps)
      [] ps.token.token_type = "BOOL_LITERAL" -> parse_bool_literal(ps)
      [] ps.token.token_type = "L_PAR" -> parse_parenthesized_expression(ps)
      [] ps.token.token_type = "WORD" -> VariableOrCall(parse_variable(ps))
      [] OTHER -> Built(ps, NoneNode)

\* The while loop of parse_term, r the node built so far.
parse_term_loop(r) ==
    IF r.ps.token.token_type \in {"STAR", "SLASH"}
    THEN parse_term_loop(
             Binary(r.node, r.ps.token,
                    parse_factor(consume(r.ps, r.ps.token.token_type))))
    ELSE r

\* parse_term without its loop: * and / are left to the caller.
parse_term_without_loop(ps) == parse_factor(ps)

parse_term(ps) == parse_term_loop(parse_factor(ps))

\* The while loop of parse_expression, r the node built so far.
parse_expression_loop(r) ==
    IF r.ps.token.token_type \in BINARY_OPERATOR_TOKENS
    THEN parse_expression_loop(
             Binary(r.node, r.ps.token,
                    parse_term(consume(r.ps, r.ps.token.token_type))))
    ELSE r

parse_expression(ps) == parse_expression_loop(parse_term(ps))

\* GiveSyntax(token, expr), r the expression.
Given(token, r) == Built(r.ps, [GiveSyntax(r.node) EXCEPT !.pos = token.pos])

parse_give(ps) == Given(ps.token, parse_expression(consume(ps, "GIVE")))

\* A token that is no type name is reported and stays the current token;
\* parse_type then returns None.
parse_type(ps) ==
    IF ps.token.token_type \in TYPE_TOKENS
    THEN Built(consume(ps, ps.token.token_type), ps.token.token_type)
    ELSE Built(UnexpectedTokenError(ps), "None")

\* DeclarationSyntax(var_type, name, expr), r the expression or None, p the
\* position of the type token.
Declared(var_type, name, p, r) ==
    Built(r.ps, [DeclarationSyntax(var_type, name, r.node) EXCEPT !.pos = p])

\* parse_declaration after consume(WORD) left the parser as named.
DeclarationNamed(var_type, name, p, named) ==
    Declared(var_type, name, p,
             IF named.token.token_type = "EQUALS"
             THEN parse_expression(consume(named, "EQUALS"))
             ELSE Built(named, NoneNode))

\* parse_declaration after parse_type returned t.
DeclarationTyped(t, p) ==
    DeclarationNamed(t.node, NameOf(t.ps.token), p, consume(t.ps, "WORD"))

parse_declaration(ps) == DeclarationTyped(parse_type(ps), ps.token.pos)

\* The while loop of parse_argument_list and the consume(R_PAR) after it.
RECURSIVE parse_argument_list_loop(_, _)

\* The loop after parse_declaration returned decl.
ArgumentDeclared(decl, args) ==
    IF decl.ps.token.token_type = "COMMA"
    THEN parse_argument_list_loop(consume(decl.ps, "COMMA"), Append(args, decl.node))
    ELSE BuiltList(consume(decl.ps, "R_PAR"), Append(args, decl.node))

parse_argument_list_loop(ps, args) ==
    IF ps.token.token_type \in TYPE_TOKENS
    THEN ArgumentDeclared(parse_declaration(ps), args)
    ELSE BuiltList(consume(ps, "R_PAR"), args)

parse_argument_list(ps) == parse_argument_list_loop(consume(ps, "L_PAR"), <<>>)

\* The while loop of parse_call_arguments and the consume(R_PAR) after it.
\* The loop after parse_expression returned var.
ArgumentParsed(var, args) ==
    IF var.ps.token.token_type = "COMMA"
    THEN parse_call_arguments_loop(consume(var.ps, "COMMA"), Append(args, var.node))
    ELSE BuiltList(consume(var.ps, "R_PAR"), Append(args, var.node))

parse_call_arguments_loop(ps, args) ==
    IF ps.token.token_type # "R_PAR"
    THEN ArgumentParsed(parse_expression(ps), args)
    ELSE BuiltList(consume(ps, "R_PAR"), args)

parse_call_arguments(ps) == parse_call_arguments_loop(consume(ps, "L_PAR"), <<>>)

\* parse_function after parse_statements returned statements: the
\* consume(SEMI_COLON) and the node.
FunctionBody(name, args, give_type, statements) ==
    IF Raised(statements.ps)
    THEN Built(statements.ps, NoneNode)
    ELSE Built(consume(statements.ps, "SEMI_COLON"),
               [FunctionSyntax(NameOf(name), args, give_type, statements.nodes)
                   EXCEPT !.pos = name.pos])

\* parse_function after the give type, None without a RIGHT_ARROW.
FunctionGiveType(name, args, give_type) ==
    FunctionBody(name, args, give_type.node,
                 parse_statements(consume_all(give_type.ps, "NEW_LINE")))

\* parse_function after parse_argument_list returned args.
FunctionArguments(name, args) ==
    FunctionGiveType(name, args.nodes,
                     IF args.ps.token.token_type = "RIGHT_ARROW"
                     THEN parse_type(consume(args.ps, "RIGHT_ARROW"))
                     ELSE Built(args.ps, "None"))

\* parse_function after consume(FUNC_DEF): the current token is the name.
FunctionNamed(ps) ==
    FunctionArguments(ps.token, parse_argument_list(consume(ps, "WORD")))

parse_function(ps) == FunctionNamed(consume(ps, "FUNC_DEF"))

\* IfSyntax is no name of parse.py or of syntax_tree.py: NameError, after
\* the condition has been parsed.
IfCondition(expr) ==
    Built([consume(consume(expr.ps, "R_PAR"), "NEW_LINE") EXCEPT !.exc = "NameError"],
          NoneNode)

parse_if(ps) == IfCondition(parse_expression(consume(consume(ps, "IF"), "L_PAR")))

\* parse_statement from the test for FUNC_DEF on.
StatementByKeyword(ps) ==
    CASE ps.token.token_type = "FUNC_DEF" -> parse_function(ps)
      [] ps.token.token_type = "GIVE" -> parse_give(ps)
      [] ps.token.token_type = "IF" -> parse_if(ps)
      [] OTHER -> Built(ps, NoneNode)

\* AssignmentSyntax(var, expr), r the expression.
Assigned(var, r) ==
    Built(r.ps, [kind |-> "AssignmentSyntax", var |-> var, expr |-> r.node])

\* parse_statement after parse_variable returned v.
StatementOfWord(v) ==
    CASE v.ps.token.token_type = "EQUALS" ->
            Assigned(v.node, parse_expression(consume(v.ps, "EQUALS")))
      [] v.ps.token.token_type = "L_PAR" ->
            Called(v.node, parse_call_arguments(v.ps))
      [] OTHER -> StatementByKeyword(consume(v.ps, "EQUALS"))

parse_statement(ps) ==
    IF ps.token.token_type \in TYPE_TOKENS THEN parse_declaration(ps)
    ELSE IF ps.token.token_type = "WORD" THEN StatementOfWord(parse_variable(ps))
    ELSE StatementByKeyword(ps)

\* parse_statements after parse_statement returned r, statements the list
\* so far.
RECURSIVE parse_statements_loop(_, _)
parse_statements_loop(r, statements) ==
    IF Raised(r.ps) \/ r.node = NoneNode
    THEN BuiltList(r.ps, statements)
    ELSE parse_statements_loop(parse_statement(consume_all(r.ps, "NEW_LINE")),
                               Append(statements, r.node))

parse_statements(ps) == parse_statements_loop(parse_statement(ps), <<>>)

\* parse after parse_statements returned statements.
Program(statements) ==
    IF Raised(statements.ps)
    THEN Built(statements.ps, NoneNode)
    ELSE Built(consume(statements.ps, "EOF"), ProgramSyntax(statements.nodes))

parse(ps) == Program(parse_statements(consume_all_optional(ps, "NEW_LINE")))


(***************************************************************************)
(* Specification ParseSpec: a Parser constructed on the lexer of a text    *)
(* (its constructor reads the first token), and one call of a method of    *)
(* the parser: parse, as boink.main calls it, or one of the functions      *)
(* parse is made of.  stage names the method that has returned.            *)
(***************************************************************************)
MaxTokens == 3      \* lexemes of a text, before the newline that ends it
MaxOperators == 2   \* binary operators of an expression text

\* What the texts are made of, each a sequence of characters.
Lexemes ==
    { <<"a">>, <<"1">>, <<"=">>, <<"+">>, <<"*">>, <<"(">>, <<")">>, <<",">>,
      <<"\n">>, <<"i", "n", "t", " ">>, <<"f", "n", " ">>,
      <<"g", "i", "v", "e", " ">>, <<";">>, <<"-", ">">>, <<"i", "f", " ">> }

RECURSIVE LexemeTexts(_)
LexemeTexts(n) ==
    IF n = 0 THEN { <<>> }
    ELSE LexemeTexts(n - 1)
         \cup { t \o l : t \in LexemeTexts(n - 1), l \in Lexemes }

OperatorLexemes ==
    { <<"+">>, <<"-">>, <<"*">>, <<"/">>, <<"&", "&">>, <<"|", "|">> }

\* The factor at place i of an expression text: its own letter, or a number.
FactorLexemes(i) == { << <<"a", "b", "c", "d", "e">>[i] >>, <<"1">> }

\* factor (operator factor)*, with n operators
RECURSIVE ExpressionTexts(_)
ExpressionTexts(n) ==
    IF n = 0 THEN FactorLexemes(1)
    ELSE { t \o o \o f : t \in ExpressionTexts(n - 1), o \in OperatorLexemes,
                         f \in FactorLexemes(n + 1) }

\* boink.main appends the newline to the text of the file.
ParseTexts ==
    { t \o <<"\n">> :
        t \in LexemeTexts(MaxTokens)
              \cup UNION { ExpressionTexts(n) : n \in 0..MaxOperators } }

TokenTypes ==
    { "EOF", "NEW_LINE", "INT_LITERAL", "FLOAT_LITERAL", "PLUS", "MINUS", "STAR",
      "SLASH", "AMPERSAND_AMPERSAND", "PIPE_PIPE", "WORD", "FUNC_DEF", "EQUALS",
      "L_PAR", "R_PAR", "SEMI_COLON", "DYNAMIC_TYPE", "INT_TYPE", "COMMA",
      "BOOL_LITERAL", "BOOL_TYPE", "FLOAT_TYPE", "RIGHT_ARROW", "GIVE", "IF",
      "GREATER", "GREATER_EQUALS", "LESS", "LESS_EQUALS", "EQUALS_EQUALS" }

\* Lexer(text, error_handler), Parser(lexer, error_handler)
ParseInit ==
    /\ text \in ParseTexts
    /\ lexer_pos = get_next_token(0, <<>>).pos
    /\ current_token = get_next_token(0, <<>>).token
    /\ errors = get_next_token(0, <<>>).errors
    /\ root = NoneNode
    /\ scopes = <<>>
    /\ current_scope = 0
    /\ an_stack = <<>>
    /\ stage = "parser"
    /\ exc = "None"
    /\ call_stack = <<>>
    /\ ctl = <<>>
    /\ ret = PyNone

Parser == ParserState(lexer_pos, current_token, errors)

\* The parser and the sink after a method left them as ps.
ParserBecomes(ps) ==
    /\ lexer_pos' = ps.pos
    /\ current_token' = ps.token
    /\ errors' = ps.errors

\* A method that builds a node has ended as r.
Returned(r, method) ==
    /\ ParserBecomes(r.ps)
    /\ IF Raised(r.ps)
       THEN stage' = "crashed" /\ exc' = r.ps.exc /\ root' = root
       ELSE stage' = method /\ exc' = exc /\ root' = r.node
    /\ UNCHANGED <<text, anVars, inVars>>

\* A method that builds nothing has ended with the parser as ps.
Consumed(ps, method) ==
    /\ ParserBecomes(ps)
    /\ stage' = method
    /\ UNCHANGED <<text, root, anVars, exc, inVars>>

\* root = parser_.parse(file_path)
Parse ==
    /\ stage = "parser"
    /\ Returned(parse(Parser), "parse")

ParseExpression ==
    /\ stage = "parser"
    /\ Returned(parse_expression(Parser), "parse_expression")

ParseType ==
    /\ stage = "parser"
    /\ Consumed(parse_type(Parser).ps, "parse_type")

Consume(token_type) ==
    /\ stage = "parser"
    /\ Consumed(consume(Parser, token_type), "consume")

ConsumeMultiple(token_types) ==
    /\ stage = "parser"
    /\ Consumed(consume_multiple(Parser, token_types), "consume_multiple")

ParseNext ==
    \/ Parse
    \/ ParseExpression
    \/ ParseType
    \/ \E token_type \in TokenTypes : Consume(token_type)
    \/ \E token_types \in {TYPE_TOKENS, BINARY_OPERATOR_TOKENS} :
          ConsumeMultiple(token_types)

ParseSpec == ParseInit /\ [][ParseNext]_vars


\* The tokens of the text, to its end.
RECURSIVE TokensFrom(_)
TokensFrom(r) ==
    IF r.token.token_type = "EOF" THEN <<>>
    ELSE <<r.token>> \o TokensFrom(get_next_token(r.pos, <<>>))

Tokens == TokensFrom(get_next_token(0, <<>>))

FactorStart ==
    {"MINUS", "PLUS", "INT_LITERAL", "FLOAT_LITERAL", "BOOL_LITERAL", "L_PAR", "WORD"}

\* No required child of the tree is absent.
RECURSIVE Complete(_)
Complete(node) ==
    CASE node.kind \in {"ProgramSyntax"} ->
            \A i \in 1..Len(node.statements) : Complete(node.statements[i])
      [] node.kind = "FunctionSyntax" ->
            /\ \A i \in 1..Len(node.args) : Complete(node.args[i])
            /\ \A i \in 1..Len(node.statements) : Complete(node.statements[i])
      [] node.kind = "DeclarationSyntax" ->
            /\ node.var_type # "None"
            /\ node.expr # NoneNode => Complete(node.expr)
      [] node.kind \in {"AssignmentSyntax", "GiveSyntax", "ParenthesizedSyntax"} ->
            node.expr # NoneNode /\ Complete(node.expr)
      [] node.kind = "BinaryOperationSyntax" ->
            /\ node.left # NoneNode /\ Complete(node.left)
            /\ node.right # NoneNode /\ Complete(node.right)
      [] node.kind = "UnaryOperationSyntax" ->
            node.expr # NoneNode => Complete(node.expr)
      [] node.kind = "FunctionCallSyntax" ->
            \A i \in 1..Len(node.args) :
                node.args[i] # NoneNode /\ Complete(node.args[i])
      [] OTHER -> TRUE

\* The text has a token that asks for an expression after it, and no
\* expression starts there.
OmitsExpression ==
    \E i \in 1..(Len(Tokens) - 1) :
        /\ Tokens[i].token_type \in
              {"EQUALS", "GIVE", "STAR", "SLASH", "AMPERSAND_AMPERSAND", "PIPE_PIPE"}
        /\ Tokens[i + 1].token_type \notin FactorStart

\* C17: the Program that parse returns has no absent required child, and
\* where the text omits an expression the sink holds an error.
C17_NoAbsentChild ==
    stage = "parse" =>
        /\ Complete(root)
        /\ OmitsExpression => errors # <<>>

\* What C18 asks after a mismatch: one more UnexpectedTokenError, at the
\* position of the token that was current, and the next token of the text
\* current.
Recovered ==
    /\ CountOf(NewErrors, "UnexpectedTokenError") = 1
    /\ Reports(NewErrors, "UnexpectedTokenError", current_token.pos)
    /\ current_token' = get_next_token(lexer_pos, <<>>).token
    /\ lexer_pos' = get_next_token(lexer_pos, <<>>).pos

\* C18: a required-token check that fails (in consume, in consume_multiple,
\* in parse_type) records exactly one UnexpectedTokenError at the current
\* token's position and makes the next token current.
C18_MismatchRecovery ==
    [][/\ \A token_type \in TokenTypes :
             (Consume(token_type) /\ current_token.token_type # token_type)
             => Recovered
       /\ \A token_types \in {TYPE_TOKENS, BINARY_OPERATOR_TOKENS} :
             (ConsumeMultiple(token_types)
              /\ current_token.token_type \notin token_types)
             => Recovered
       /\ (ParseType /\ current_token.token_type \notin TYPE_TOKENS)
             => Recovered]_vars

\* The text is factor (operator factor)* and the newline, the factors
\* variables and numbers.
WellFormedExpression ==
    /\ Len(Tokens) >= 2
    /\ Len(Tokens) % 2 = 0
    /\ Tokens[Len(Tokens)].token_type = "NEW_LINE"
    /\ \A i \in 1..(Len(Tokens) - 1) :
          IF i % 2 = 1
          THEN Tokens[i].token_type \in {"WORD", "INT_LITERAL"}
          ELSE Tokens[i].token_type \in BinaryOperators

\* The tokens a tree of binary operations was built from, left to right:
\* a factor with its position, an operator without.
RECURSIVE Yield(_)
Yield(node) ==
    CASE node.kind = "BinaryOperationSyntax" ->
            Yield(node.left) \o << <<node.op, -1>> >> \o Yield(node.right)
      [] node.kind = "VariableSyntax" -> << <<"WORD", node.pos>> >>
      [] node.kind = "IntLiteralSyntax" -> << <<"INT_LITERAL", node.pos>> >>
      [] OTHER -> << <<"None", -1>> >>

ExpressionTokens ==
    [i \in 1..(Len(Tokens) - 1) |->
        <<Tokens[i].token_type, IF i % 2 = 1 THEN Tokens[i].pos ELSE -1>>]

\* * and / take a factor on the right and only * and / on the left;
\* the other operators take no operation of their own tier on the right.
RECURSIVE Tiered(_)
Tiered(node) ==
    node.kind = "BinaryOperationSyntax" =>
        /\ Tiered(node.left)
        /\ Tiered(node.right)
        /\ IF node.op \in {"STAR", "SLASH"}
           THEN /\ node.right.kind # "BinaryOperationSyntax"
                /\ node.left.kind = "BinaryOperationSyntax"
                      => node.left.op \in {"STAR", "SLASH"}
           ELSE node.right.kind = "BinaryOperationSyntax"
                   => node.right.op \in {"STAR", "SLASH"}

VariableAt(name, p) == [VariableSyntax(name) EXCEPT !.pos = p]

\* C19: parse_expression on factor (operator factor)* builds the tree of
\* all its tokens in which * and / bind tighter than +, -, && and ||, and
\* each tier associates to the left; so a - b + c is ((a - b) + c),
\* a + b * c is (a + (b * c)), and a && b + c is ((a && b) + c).
C19_Precedence ==
    (stage = "parse_expression" /\ WellFormedExpression) =>
        /\ errors = <<>>
        /\ current_token.token_type = "NEW_LINE"
        /\ Yield(root) = ExpressionTokens
        /\ Tiered(root)
        /\ text = <<"a", "-", "b", "+", "c", "\n">> =>
              root = BinaryOperationSyntax(
                         BinaryOperationSyntax(VariableAt("a", 0), "MINUS",
                                               VariableAt("b", 2)),
                         "PLUS", VariableAt("c", 4))
        /\ text = <<"a", "+", "b", "*", "c", "\n">> =>
              root = BinaryOperationSyntax(
                         VariableAt("a", 0), "PLUS",
                         BinaryOperationSyntax(VariableAt("b", 2), "STAR",
                                               VariableAt("c", 4)))
        /\ text = <<"a", "&", "&", "b", "+", "c", "\n">> =>
              root = BinaryOperationSyntax(
                         BinaryOperationSyntax(VariableAt("a", 0),
                                               "AMPERSAND_AMPERSAND",
                                               VariableAt("b", 3)),
                         "PLUS", VariableAt("c", 5))

\* a + b * c has been parsed as (a + (b * c)).
C19_Witness ==
    /\ stage = "parse_expression"
    /\ text = <<"a", "+", "b", "*", "c", "\n">>
    /\ root = BinaryOperationSyntax(
                  VariableAt("a", 0), "PLUS",
                  BinaryOperationSyntax(VariableAt("b", 2), "STAR",
                                        VariableAt("c", 4)))


\* The character at offset i is in a comment: a # comes before it on its line.
InComment(i) ==
    \E j \in 0..i :
        /\ text[j + 1] = "#"
        /\ \A k \in j..i : text[k + 1] # "\n"

\* The offsets of the characters that start no token, outside the comments.
\* An & or a | with no second one beside it starts no token either.
Alone(i) ==
    /\ text[i + 1] \in {"&", "|"}
    /\ i > 0 => text[i] # text[i + 1]
    /\ i + 1 < Len(text) => text[i + 2] # text[i + 1]

StrayOffsets ==
    {i \in 0..(Len(text) - 1) : (text[i + 1] = "@" \/ Alone(i)) /\ ~InComment(i)}

ErrorsAt(errs, i) ==
    {k \in 1..Len(errs) : errs[k].cls = "UnknownTokenError" /\ errs[k].pos = i}

\* The cursor after the spaces and the comments that start at p.
RECURSIVE AfterBlanks(_)
AfterBlanks(p) ==
    IF p < Len(text) /\ text[p + 1] = " " THEN AfterBlanks(p + 1)
    ELSE IF p < Len(text) /\ text[p + 1] = "#"
    THEN AfterBlanks(CHOOSE e \in p..Len(text) :
                        /\ e = Len(text) \/ text[e + 1] = "\n"
                        /\ \A k \in p..(e - 1) : text[k + 1] # "\n")
    ELSE p

\* C21: every call of get_next_token returns a token; a character that
\* starts no token, outside the comments, has exactly one UnknownTokenError
\* at its offset once the cursor has passed it and none before; and with
\* such a character next, the call returns what it returns from the cursor
\* behind the character, which is what it returns where a space stands in
\* the character's place.
C21_UnknownCharacter ==
    [][GetNextToken =>
          /\ current_token'.token_type \in TokenTypes
          /\ \A i \in StrayOffsets :
                Cardinality(ErrorsAt(errors', i)) = IF i < lexer_pos' THEN 1 ELSE 0
          /\ AfterBlanks(lexer_pos) \in StrayOffsets =>
                /\ current_token' =
                      get_next_token(AfterBlanks(lexer_pos) + 1, <<>>).token
                /\ lexer_pos' = get_next_token(AfterBlanks(lexer_pos) + 1, <<>>).pos]_vars

\* The lexer has skipped a stray character and returned the word after it.
C21_Witness ==
    /\ stage = "lex"
    /\ text = <<"a", "@", "a">>
    /\ current_token.token_type = "WORD"
    /\ current_token.pos = 2
    /\ Cardinality(ErrorsAt(errors, 1)) = 1

\* C22: after get_next_token has returned the end-of-file token, a call
\* returns the end-of-file token again, leaves the cursor where it is and
\* records nothing.
C22_EndOfFile ==
    [][(GetNextToken /\ current_token.token_type = "EOF") =>
          /\ current_token'.token_type = "EOF"
          /\ lexer_pos' = lexer_pos
          /\ errors' = errors]_vars

\* The lexer is at the end of a text that has tokens and an error.
C22_Witness ==
    /\ stage = "lex"
    /\ current_token.token_type = "EOF"
    /\ lexer_pos = Len(text)
    /\ Len(text) = MaxText
    /\ errors # <<>>


(***************************************************************************)
(* Lexer.convert_pos_to_line, and the specification LineSpec of a lexer    *)
(* that is asked for tokens and for the lines of offsets in any order.     *)
(***************************************************************************)
PyPair(a, b) == [t |-> "tuple", n |-> a, d |-> b]

\* while i < pos: ...; the character looked at is text[i].
RECURSIVE convert_pos_to_line_loop(_, _, _, _)
convert_pos_to_line_loop(i, p, line_count, offset_to_new_line) ==
    IF i < p
    THEN IF text[i + 1] = "\n"
         THEN convert_pos_to_line_loop(i + 1, p, line_count + 1, 0)
         ELSE convert_pos_to_line_loop(i + 1, p, line_count, offset_to_new_line + 1)
    ELSE PyPair(line_count + 1, offset_to_new_line + 1)

\* convert_pos_to_line with a loop that starts behind the first character.
convert_pos_to_line_from_one(p) ==
    IF p >= Len(text) THEN PyNone ELSE convert_pos_to_line_loop(1, p, 0, 0)

convert_pos_to_line(p) ==
    IF p >= Len(text) THEN PyNone ELSE convert_pos_to_line_loop(0, p, 0, 0)

LineCharacters == {"a", "\n", "#"}

LineTexts == UNION { [1..n -> LineCharacters] : n \in 0..MaxText }

\* The offsets asked for: those of the text and two behind its end.
LineOffsets == 0..(Len(text) + 1)

LineInit ==
    /\ text \in LineTexts
    /\ lexer_pos = 0
    /\ current_token = NoToken
    /\ errors = <<>>
    /\ root = NoneNode
    /\ scopes = <<>>
    /\ current_scope = 0
    /\ an_stack = <<>>
    /\ stage = "lex"
    /\ exc = "None"
    /\ call_stack = <<>>
    /\ ctl = <<>>
    /\ ret = PyNone

\* lexer.convert_pos_to_line(o)
ConvertPosToLine(o) ==
    /\ stage = "lex"
    /\ ret' = convert_pos_to_line(o)
    /\ UNCHANGED <<lexVars, root, errors, anVars, stage, exc, call_stack, ctl>>

LineNext ==
    \/ GetNextToken
    \/ \E o \in LineOffsets : ConvertPosToLine(o)

LineSpec == LineInit /\ [][LineNext]_vars

\* The offsets of the line breaks before offset o.
BreaksBefore(o) == {j \in 0..(o - 1) : text[j + 1] = "\n"}

\* The offset at which the line of offset o starts.
LineStart(o) ==
    IF BreaksBefore(o) = {} THEN 0
    ELSE 1 + CHOOSE j \in BreaksBefore(o) : \A k \in BreaksBefore(o) : k <= j

\* C23: for an offset o of the text, convert_pos_to_line returns the line
\* 1 + the number of line breaks before o and the column 1 + the number of
\* characters between the start of that line and o; for an offset at or
\* behind the end of the text it returns none; the cursor stays where it is.
C23_LineAndColumn ==
    [][\A o \in LineOffsets :
          ConvertPosToLine(o) =>
              /\ ret' = IF o < Len(text)
                        THEN PyPair(1 + Cardinality(BreaksBefore(o)),
                                    1 + (o - LineStart(o)))
                        ELSE PyNone
              /\ lexer_pos' = lexer_pos
              /\ current_token' = current_token]_vars

\* The lexer, two tokens into the text, has located the second character
\* of the second line.
C23_Witness ==
    /\ stage = "lex"
    /\ text = <<"a", "\n", "a", "a">>
    /\ lexer_pos = 2
    /\ ret = PyPair(2, 2)


(***************************************************************************)
(* Properties of the interpreter's calls and of its call stack, under      *)
(* Spec.                                                                   *)
(***************************************************************************)
\* The statements the function object lists.
Listed(frame) == frame.func_symbol.val.items

\* The index of the first Give the function lists, 0 when it lists none.
FirstGive(frame) ==
    IF \E i \in 1..Len(Listed(frame)) : Listed(frame)[i].kind = "GiveSyntax"
    THEN CHOOSE i \in 1..Len(Listed(frame)) :
            /\ Listed(frame)[i].kind = "GiveSyntax"
            /\ \A k \in 1..(i - 1) : Listed(frame)[k].kind # "GiveSyntax"
    ELSE 0

\* A call runs the listed statements in order up to the first Give: the
\* statement it visits next is the one after the last visited and no Give
\* is before it; it returns after the first Give with the value the visit
\* of the Give returned, or after the last statement with none.
CallsStopAtGive ==
    /\ CallStatement =>
          /\ Top'.node = Listed(Top)[Top.i]
          /\ ctl'[Len(ctl)].i = Top.i + 1
          /\ \A k \in 1..(Top.i - 1) : Listed(Top)[k].kind # "GiveSyntax"
    /\ CallReturn =>
          IF FirstGive(Top) # 0
          THEN Top.i = FirstGive(Top) + 1 /\ ret' = ret
          ELSE Top.i = Len(Listed(Top)) + 1 /\ ret' = PyNone

\* The program defines inc with the body give a + 1.
GivesSum ==
    \E i \in 1..Len(root.statements) :
        /\ root.statements[i].kind = "FunctionSyntax"
        /\ root.statements[i].name = "inc"
        /\ root.statements[i].statements[1].kind = "GiveSyntax"
        /\ root.statements[i].statements[1].expr.kind = "BinaryOperationSyntax"

\* The value the call of inc is given for a.
Passed == Top.node.args[1].val.n

\* C24: a call executes the statements the callee lists in order and stops
\* at the first Give, whose value it returns, none when there is no Give;
\* and the call inc(v) of the function inc of body give a + 1 is executed
\* and returns v + 1.
C24_FirstGive ==
    /\ [][CallsStopAtGive]_vars
    /\ [][(CallReturn /\ Top.node.name = "inc" /\ GivesSum)
             => ret' = PyInt(Passed + 1)]_vars
    /\ [](GivesSum /\ errors = <<>> => stage # "crashed")


\* C25: the k-th record of the call stack from the bottom has the nesting
\* level k; the bottom record is the program's, with no parent; the parent
\* of every other record is the record directly below it; so the depth of
\* the stack is the nesting level of its top record.
C25_StackShape ==
    /\ \A k \in 1..Len(call_stack) :
          /\ call_stack[k].nesting_level = k
          /\ call_stack[k].parent_record = k - 1
    /\ call_stack # <<>> =>
          /\ call_stack[1].name = "program"
          /\ call_stack[peek].nesting_level = Len(call_stack)

\* A call made from a call is running.
C25_Witness ==
    /\ stage = "interpret"
    /\ Len(call_stack) = 3
    /\ Resume("call")
    /\ Top.at = "body"

\* The method of the frame has pushed a record it has not popped.
Holds(frame) ==
    \/ frame.h = "program"
    \/ frame.h = "call" /\ frame.at \in {"body", "give"}

\* The methods that have pushed a record and not popped it, outermost first.
Held == SelectSeq(ctl, Holds)

\* What tells a record from another: the members of a record change while
\* it is on the stack.
Identity(ar) == <<ar.name, ar.nesting_level, ar.parent_record>>

\* C26: the records on the stack are those of the program and of the calls
\* that have been entered and have not exited, in the order of entry; only
\* the exit of the program or of a call takes a record off, the top one,
\* which is its own; the exit of a call leaves the records that were there
\* when its record was pushed; the stack of an interpreted program is
\* empty.
C26_PushPop ==
    /\ [](/\ Len(Held) = Len(call_stack)
          /\ \A k \in 2..Len(Held) : Identity(call_stack[k]) = Identity(Held[k].ar))
    /\ [][Len(call_stack') < Len(call_stack) => CallReturn \/ ProgramEnd]_vars
    /\ [][CallReturn =>
             /\ Holds(Top)
             /\ Identity(call_stack[peek]) = Identity(Top.ar)
             /\ Len(call_stack') = Len(call_stack) - 1
             /\ \A k \in 1..Len(call_stack') :
                   Identity(call_stack'[k]) = Identity(call_stack[k])]_vars
    /\ [][ProgramEnd => Len(call_stack) = 1 /\ call_stack' = <<>>]_vars
    /\ [](stage = "executed" => call_stack = <<>>)

\* A call made from a call has returned to its caller's body.
C26_Witness ==
    /\ Resume("call")
    /\ Top.at = "body"
    /\ Top.i > 1
    /\ Listed(Top)[Top.i - 1].kind = "FunctionCallSyntax"
    /\ Len(call_stack) = 2


(***************************************************************************)
(* Properties of the analyzer's scopes, under Spec.                        *)
(***************************************************************************)
\* The names defined in a scope other than the global one and not in the
\* global one: parameters and names declared in function bodies.
FunctionLocals ==
    UNION {DOMAIN scopes[t].symbols : t \in 2..Len(scopes)}
        \ DOMAIN scopes[1].symbols

\* C27: when the analyzer starts the visit of a statement listed in the
\* Program, the current scope is the global scope; when it starts the visit
\* of a statement listed in a function, the current scope is the scope of
\* that function, whose parent is the scope of the loop that visited the
\* function; so no name of a function resolves from a statement of the
\* Program.
C27_ScopeOfStatement ==
    AnVisiting =>
        IF Len(an_stack) = 1
        THEN /\ current_scope = 1
             /\ scopes[current_scope].scope_name = "global"
             /\ scopes[current_scope].parent = 0
             /\ \A name \in FunctionLocals :
                   lookup(scopes, current_scope, name).cls = "None"
        ELSE /\ scopes[current_scope].scope_name = AnTop.node.name
             /\ scopes[current_scope].owner.cls = "FunctionSymbol"
             /\ scopes[current_scope].owner.name = AnTop.node.name
             /\ scopes[current_scope].parent = an_stack[Len(an_stack) - 1].scope
             /\ current_scope > scopes[current_scope].parent

\* The analyzer is at the statement of the Program after a function that
\* has a parameter a, and the Program has no a.
C27_Witness ==
    /\ AnVisiting
    /\ Len(an_stack) = 1
    /\ AnTop.i > 1
    /\ AnTop.node.statements[AnTop.i - 1].kind = "FunctionSyntax"
    /\ AnTop.node.statements[AnTop.i - 1].args # <<>>
    /\ "a" \in FunctionLocals


\* The scope the analyzer created for the code that is running: the global
\* scope for the Program, the scope of the function for a call.
Running ==
    IF Held[Len(Held)].h = "program" THEN 1
    ELSE CHOOSE t \in 1..Len(scopes) :
            scopes[t].scope_name = Held[Len(Held)].node.name

\* The class of the host values of a type.
KindOf(var_type) ==
    CASE var_type = "int_" -> "int"
      [] var_type = "bool_" -> "bool"
      [] var_type = "float_" -> "float"
      [] OTHER -> "None"

\* C28: a Variable read at runtime yields a value of the type of the
\* symbol the name resolves to from the scope of the running code through
\* the enclosing scopes, or the value of a variable declared with none.
C28_LexicalRead ==
    [][(Dispatch({"VariableSyntax"}) /\ Interpreter_visit_variable_syntax
           /\ stage' = "interpret")
       => /\ lookup(scopes, Running, Top.node.name).cls = "VarSymbol"
          /\ ret'.t # "NoneType" =>
                ret'.t = KindOf(lookup(scopes, Running, Top.node.name).var_type)]_vars


\* The value of an expression of literals and parentheses.
RECURSIVE ValueOf(_)
ValueOf(node) ==
    IF node.kind = "ParenthesizedSyntax" THEN ValueOf(node.expr) ELSE node.val

\* C29: the visit of a parenthesized expression returns the value of the
\* expression in the parentheses, and a declaration of (e) stores the value
\* a declaration of e stores; here e is a literal.
C29_Parenthesized ==
    /\ [][Interpreter_visit_parenthesized_syntax => ret' = ValueOf(Top.node)]_vars
    /\ [][(DeclarationStore /\ Top.node.expr.kind = "ParenthesizedSyntax")
             => call_stack'[peek].members[Top.node.name].val
                   = ValueOf(Top.node.expr)]_vars


(***************************************************************************)
(* The loops of the parser, an iteration a step: the specification         *)
(* LoopSpec.  Every loop of parse.py tests the current token, and its body *)
(* either goes round again or leaves the loop; here any loop may be at any *)
(* iteration wherever the parser is in the text, which covers the places   *)
(* where parse runs them.  stage is "looping" when the iteration goes      *)
(* round again and "left" when it has left the loop.                       *)
(***************************************************************************)
LoopInit == ParseInit

InLoops == stage \in {"parser", "looping", "left"}

\* The body of a loop has ended with the parser as ps.
Iterated(ps, continues) ==
    /\ ParserBecomes(ps)
    /\ stage' = IF Raised(ps) THEN "crashed"
                ELSE IF continues THEN "looping" ELSE "left"
    /\ exc' = IF Raised(ps) THEN ps.exc ELSE exc
    /\ UNCHANGED <<text, root, anVars, inVars>>

\* while self.current_token.token_type == token_type: self.consume(token_type)
\* (consume_all and consume_all_optional, called with NEW_LINE)
NewLineIteration ==
    /\ InLoops
    /\ IF current_token.token_type = "NEW_LINE"
       THEN Iterated(consume(Parser, "NEW_LINE"), TRUE)
       ELSE Iterated(Parser, FALSE)

StatementParsed(r) ==
    IF Raised(r.ps) \/ r.node = NoneNode
    THEN Iterated(r.ps, FALSE)
    ELSE Iterated(consume_all(r.ps, "NEW_LINE"), TRUE)

\* A loop over the statements that gives back the tokens of a statement.
StatementsIterationInPlace ==
    /\ InLoops
    /\ Iterated(Parser, parse_statement(Parser).node # NoneNode)

\* parse_statements: statement = self.parse_statement(); if statement ==
\* None: break; self.consume_all(TokenType.NEW_LINE)
StatementsIteration ==
    /\ InLoops
    /\ StatementParsed(parse_statement(Parser))

ListItemParsed(r) ==
    IF ~Raised(r.ps) /\ r.ps.token.token_type = "COMMA"
    THEN Iterated(consume(r.ps, "COMMA"), TRUE)
    ELSE Iterated(r.ps, FALSE)

\* The while loop of parse_call_arguments.
CallArgumentsIteration ==
    /\ InLoops
    /\ IF current_token.token_type # "R_PAR"
       THEN ListItemParsed(parse_expression(Parser))
       ELSE Iterated(Parser, FALSE)

\* The while loop of parse_argument_list.
ArgumentListIteration ==
    /\ InLoops
    /\ IF current_token.token_type \in TYPE_TOKENS
       THEN ListItemParsed(parse_declaration(Parser))
       ELSE Iterated(Parser, FALSE)

\* The while loop of parse_term.
TermIteration ==
    /\ InLoops
    /\ IF current_token.token_type \in {"STAR", "SLASH"}
       THEN Iterated(parse_factor(consume(Parser, current_token.token_type)).ps, TRUE)
       ELSE Iterated(Parser, FALSE)

\* The while loop of parse_expression.
ExpressionIteration ==
    /\ InLoops
    /\ IF current_token.token_type \in BINARY_OPERATOR_TOKENS
       THEN Iterated(parse_term(consume(Parser, current_token.token_type)).ps, TRUE)
       ELSE Iterated(Parser, FALSE)

LoopNext ==
    \/ NewLineIteration
    \/ StatementsIteration
    \/ CallArgumentsIteration
    \/ ArgumentListIteration
    \/ TermIteration
    \/ ExpressionIteration

LoopSpec == LoopInit /\ [][LoopNext]_vars

\* The number of tokens from the token to the end of the text, the lexer
\* being at p.
Remaining(token, p) == Len(TokensFrom([token |-> token, pos |-> p]))

\* C30: the cursor of the lexer never moves back; an iteration of a loop
\* of the parser that goes round again has consumed at least one token, so
\* that fewer tokens remain; at the end-of-file token every loop is left.
\* The tokens of a text being finitely many, the loops end.
C30_LoopsEnd ==
    /\ [][lexer_pos' >= lexer_pos /\ lexer_pos' <= Len(text)]_vars
    /\ [][stage' = "looping" =>
             Remaining(current_token', lexer_pos') < Remaining(current_token, lexer_pos)]_vars
    /\ [][current_token.token_type = "EOF" => stage' # "looping"]_vars

\* The loops have gone through a text of twice MaxTokens tokens to its end.
C30_Witness ==
    /\ stage = "left"
    /\ current_token.token_type = "EOF"
    /\ lexer_pos = Len(text)
    /\ Len(Tokens) >= 2 * MaxTokens
    /\ errors = <<>>

====
